---- MODULE Spec2Model ----
(***************************************************************************)
(* Model of the request-serving core of cello (src/src/server/mod.rs):     *)
(* ServerMetrics, ShutdownCoordinator, the accept loop of Server::run with *)
(* its per-connection tasks, and the handle_request pipeline.              *)
(*                                                                         *)
(* Spec     : the running server (accept loop, connection tasks, shutdown  *)
(*            callers, drain).  A request in flight on a connection is the *)
(*            service closure of Server::run; the stages inside            *)
(*            handle_request are the subject of SpecReq.                   *)
(* SpecReq  : one call of handle_request, stage by stage, while the guard  *)
(*            and instrumentation-hook configuration may be changed by     *)
(*            other threads.                                               *)
(* FairSpec : Spec with the scheduling the runtime gives its tasks.        *)
(* SpecQuery: the query-string parser of handle_request on its own.        *)
(* SpecMetrics: threads sharing one ServerMetrics.                         *)
(* SpecStore: threads sharing one InMemoryEventStore                       *)
(*            (src/src/middleware/eventsourcing.rs).                       *)
(* SpecSaga : one SagaOrchestrator (src/src/middleware/saga.rs).           *)
(* SpecConsumer: one MockConsumer (src/src/middleware/messaging.rs).       *)
(* SpecGrpc : threads calling one GrpcServer (src/src/middleware/grpc.rs). *)
(* SpecBuilder: the match of handle_request on the handler's result.       *)
(* SpecLatency: callers of ServerMetrics::record_latency.                  *)
(* SpecProducer: threads sharing one MockProducer                          *)
(*            (src/src/middleware/messaging.rs).                           *)
(* SpecRedis: one MockRedisClient (src/src/middleware/redis.rs).           *)
(***************************************************************************)
EXTENDS Integers, Sequences, FiniteSets, TLC

\* ------------------------------------------------------------------------
\* Bounds of the model
\* ------------------------------------------------------------------------
MaxConns == 2          \* connections the listener hands to the accept loop
MaxCeiling == 2        \* largest max_connections tried
MaxRequests == 2       \* requests started over the whole run
MaxCalls == 2          \* shutdown() calls made by each API caller
MaxDrainTimeout == 1   \* largest drain_timeout tried, in 100ms polls
MaxElapsed == 3        \* largest elapsed drain time tracked, in 100ms polls
MaxCfgChanges == 1     \* changes other threads make to guards / hook slot
MaxTokens == 3         \* pieces a query string tried is made of
MaxMetricCalls == 2    \* calls of each ServerMetrics method made by the callers
MaxVersion == 2        \* largest event version and expected_version tried
MaxAppends == 2        \* append_events calls made over the whole run
MaxLog == 2            \* max_events_per_aggregate of the store tried
MaxExecutions == 1     \* saga executions started
MaxStepCalls == 3      \* complete_step and fail_step calls made
MaxEnqueued == 3       \* messages enqueued on the consumer
MaxGrpcCalls == 3      \* GrpcServer::handle_request calls made
MaxLatencyRequests == 130   \* requests begun by the callers of record_latency
MaxSends == 3              \* send and send_batch calls made on the producer
MaxRedisCalls == 3         \* calls made on the redis client
MaxNow == 3                \* ticks of the clock the redis client reads

\* AtomicU64 arithmetic wraps.  TLC integers are 32 bits wide, so the
\* modulus stands in for 2^64; a counter wraps exactly when it is
\* decremented at zero, whatever the width.
CounterMod == 2^30

ConnIds == 1..MaxConns
ApiCallers == {"api1", "api2"}
Callers == ApiCallers \cup {"sigterm"}
Threads == Callers \cup {"ctrlc"}

VARIABLES
    \* ServerMetrics
    total_requests, active_connections, bytes_received, bytes_sent,
    total_errors, latencies,
    \* ShutdownCoordinator
    shutdown_initiated, active_requests, drain_timeout,
    notify_tail,        \* messages the broadcast channel has queued
    rx_subscribed,      \* shutdown_rx exists (Server::run subscribed)
    rx_pos,             \* next message shutdown_rx will read
    \* ServerConfig
    max_connections,
    \* Server::run
    main_pc, next_conn, conn, drain_elapsed,
    \* threads inside ShutdownCoordinator::shutdown
    cpc, calls, clate,
    \* observation of the run (not program state)
    sd_transitions,     \* times shutdown_initiated went from false to true
    calls_done,         \* shutdown() calls that have returned
    late_notifications, \* notifications queued by calls begun after one returned
    rejected,           \* accepts refused at the ceiling
    spawned,            \* connection tasks spawned
    decs,               \* dec_connections calls made, per connection
    \* handle_request: the request being handled and its locals
    rq,
    \* Server fields read by handle_request: middleware chain, guards, hook slot
    cfg,
    \* observation of the pipeline (not program state)
    handler_calls,      \* invocations of the handler capability
    served,             \* requests handle_request has been entered for
    \* the query parser applied to a query string on its own
    qparse,
    \* threads calling a shared ServerMetrics, and a snapshot() in progress
    mt,
    \* InMemoryEventStore: events, snapshots, metrics, config
    es,
    \* threads calling the store: position, arguments and result of each
    esc,
    \* SagaOrchestrator: definitions, executions, counter, metrics
    sg,
    \* the calls made on the orchestrator: last result, start_execution under way
    sgc,
    \* MockConsumer: subscriptions, pending queue, metrics, and what polls returned
    mc,
    \* GrpcServer: config, services, stats
    gr,
    \* threads inside GrpcServer::handle_request, and what they were returned
    grc,
    \* the generic response construction of handle_request applied to a handler result on its own
    rb,
    \* requests that end in ServerMetrics::record_latency: position of each, samples pushed
    lt,
    \* MockProducer: stored messages, messages_sent, and the threads inside send
    mp,
    \* MockRedisClient: data, ttls, metrics, the clock, and the last reply
    rd

metricsVars == <<total_requests, active_connections, bytes_received, bytes_sent,
                 total_errors, latencies>>
coordVars == <<shutdown_initiated, active_requests, drain_timeout, notify_tail,
               rx_subscribed, rx_pos>>
runVars == <<max_connections, main_pc, next_conn, conn, drain_elapsed>>
callVars == <<cpc, calls, clate>>
obsVars == <<sd_transitions, calls_done, late_notifications, rejected, spawned, decs>>

reqVars == <<rq, cfg, handler_calls, served>>

\* state of the components checked on their own
libVars == <<qparse, mt, es, esc, sg, sgc, mc, gr, grc, rb, lt, mp, rd>>

vars == <<metricsVars, coordVars, runVars, callVars, obsVars, reqVars, libVars>>

\* ------------------------------------------------------------------------
\* ServerMetrics
\* ------------------------------------------------------------------------
fetch_add(v, n) == (v + n) % CounterMod
fetch_sub(v, n) == (v - n) % CounterMod

inc_requests(v) == fetch_add(v, 1)
inc_connections(v) == fetch_add(v, 1)
\* Variant of dec_connections: the decrement saturates at zero
dec_connections_Saturating(v) == IF v = 0 THEN 0 ELSE v - 1

dec_connections(v) == fetch_sub(v, 1)
add_bytes_received(v, n) == fetch_add(v, n)
add_bytes_sent(v, n) == fetch_add(v, n)
inc_errors(v) == fetch_add(v, 1)

LatencyCapacity == 1000
SampleMask == 63

\* Variant of AndMask: the remainder by 63
AndMask_Mod63(x) == x % SampleMask

\* x & 63 on a non-negative integer
AndMask(x) == x % (SampleMask + 1)

\* self.total_requests.load(Relaxed) & 63 == 0
sample_due(requests) == AndMask(requests) = 0

\* Variant of push_latency: nothing is popped
push_latency_NoPop(buf, latency) == Append(buf, latency)

\* Under latencies.write(): push_back, and pop_front once over 1000 entries
push_latency(buf, latency) ==
    LET pushed == Append(buf, latency)
    IN IF Len(pushed) > LatencyCapacity THEN Tail(pushed) ELSE pushed

\* record_latency: every 64th request is sampled into the bounded deque
record_latency(buf, requests, latency) ==
    IF sample_due(requests) THEN push_latency(buf, latency) ELSE buf

\* ------------------------------------------------------------------------
\* ShutdownCoordinator
\* ------------------------------------------------------------------------
BroadcastCapacity == 1

is_shutting_down == shutdown_initiated

\* Variant of ShutdownStore: the flag is flipped instead of set
ShutdownStore_Toggle ==
    /\ shutdown_initiated' = ~shutdown_initiated
    /\ sd_transitions' = IF shutdown_initiated THEN sd_transitions ELSE sd_transitions + 1

\* shutdown(), first half: shutdown_initiated.store(true)
ShutdownStore ==
    /\ shutdown_initiated' = TRUE
    /\ sd_transitions' = IF shutdown_initiated THEN sd_transitions ELSE sd_transitions + 1

\* Variant of NotifySend: only the first call to return sends
NotifySend_OnlyFirst ==
    notify_tail' = IF rx_subscribed /\ calls_done = 0 THEN notify_tail + 1 ELSE notify_tail

\* shutdown(), second half: let _ = notify.send(()).  The value is queued
\* for every live receiver; with no receiver send fails and is ignored.
NotifySend ==
    notify_tail' = IF rx_subscribed THEN notify_tail + 1 ELSE notify_tail

ShutdownSend(late) ==
    /\ NotifySend
    /\ calls_done' = calls_done + 1
    /\ late_notifications' =
         IF late /\ notify_tail' # notify_tail
         THEN late_notifications + 1 ELSE late_notifications

\* shutdown_rx.recv() is ready when a message is queued; a receiver that fell
\* more than the capacity behind gets Lagged and skips to the oldest kept one
RecvReady == rx_subscribed /\ rx_pos < notify_tail
RecvNextPos ==
    IF notify_tail - rx_pos > BroadcastCapacity
    THEN notify_tail - BroadcastCapacity
    ELSE rx_pos + 1

request_started(v) == fetch_add(v, 1)
request_finished(v) == fetch_sub(v, 1)

\* ------------------------------------------------------------------------
\* Server::shutdown(&self): callers that hold the Server before run(self)
\* consumes it.  Several threads may be inside shutdown() at once.
\* ------------------------------------------------------------------------
ApiShutdownStore(k) ==
    /\ main_pc = "new"
    /\ cpc[k] = "idle"
    /\ calls[k] < MaxCalls
    /\ ShutdownStore
    /\ cpc' = [cpc EXCEPT ![k] = "stored"]
    /\ clate' = [clate EXCEPT ![k] = (calls_done > 0)]
    /\ calls' = [calls EXCEPT ![k] = @ + 1]
    /\ UNCHANGED <<metricsVars, runVars>>
    /\ UNCHANGED <<active_requests, drain_timeout, notify_tail, rx_subscribed, rx_pos>>
    /\ UNCHANGED <<calls_done, late_notifications, rejected, spawned, decs>>
    /\ UNCHANGED <<reqVars, libVars>>

ApiShutdownSend(k) ==
    /\ k \in ApiCallers
    /\ cpc[k] = "stored"
    /\ ShutdownSend(clate[k])
    /\ cpc' = [cpc EXCEPT ![k] = "idle"]
    /\ UNCHANGED <<metricsVars, runVars, calls, clate>>
    /\ UNCHANGED <<shutdown_initiated, active_requests, drain_timeout, rx_subscribed, rx_pos>>
    /\ UNCHANGED <<sd_transitions, rejected, spawned, decs>>
    /\ UNCHANGED <<reqVars, libVars>>

\* ------------------------------------------------------------------------
\* Server::run
\* ------------------------------------------------------------------------
\* Socket set-up, shutdown.subscribe(), spawn of the SIGTERM task.  run takes
\* the Server by value, so no Server::shutdown call is in progress.
RunStart ==
    /\ main_pc = "new"
    /\ \A k \in ApiCallers : cpc[k] = "idle"
    /\ \E bound \in BOOLEAN :
         IF bound
         THEN /\ main_pc' = "select"
              /\ rx_subscribed' = TRUE
              /\ rx_pos' = notify_tail
              /\ cpc' = [cpc EXCEPT !["sigterm"] = "waiting"]
         ELSE /\ main_pc' = "failed"
              /\ UNCHANGED <<rx_subscribed, rx_pos, cpc>>
    /\ UNCHANGED <<metricsVars, obsVars, calls, clate>>
    /\ UNCHANGED <<shutdown_initiated, active_requests, drain_timeout, notify_tail>>
    /\ UNCHANGED <<max_connections, next_conn, conn, drain_elapsed>>
    /\ UNCHANGED <<reqVars, libVars>>

\* The SIGTERM task: sig.recv() returns, then shutdown_sigterm.shutdown()
SigtermStore ==
    /\ cpc["sigterm"] = "waiting"
    /\ ShutdownStore
    /\ cpc' = [cpc EXCEPT !["sigterm"] = "stored"]
    /\ clate' = [clate EXCEPT !["sigterm"] = (calls_done > 0)]
    /\ calls' = [calls EXCEPT !["sigterm"] = @ + 1]
    /\ UNCHANGED <<metricsVars, runVars>>
    /\ UNCHANGED <<active_requests, drain_timeout, notify_tail, rx_subscribed, rx_pos>>
    /\ UNCHANGED <<calls_done, late_notifications, rejected, spawned, decs>>
    /\ UNCHANGED <<reqVars, libVars>>

SigtermSend ==
    /\ cpc["sigterm"] = "stored"
    /\ ShutdownSend(clate["sigterm"])
    /\ cpc' = [cpc EXCEPT !["sigterm"] = "done"]
    /\ UNCHANGED <<metricsVars, runVars, calls, clate>>
    /\ UNCHANGED <<shutdown_initiated, active_requests, drain_timeout, rx_subscribed, rx_pos>>
    /\ UNCHANGED <<sd_transitions, rejected, spawned, decs>>
    /\ UNCHANGED <<reqVars, libVars>>

\* select! branch: tokio::signal::ctrl_c() => { shutdown.shutdown(); break; }
SelectCtrlC ==
    /\ main_pc = "select"
    /\ ShutdownStore
    /\ main_pc' = "ctrlc_send"
    /\ clate' = [clate EXCEPT !["ctrlc"] = (calls_done > 0)]
    /\ UNCHANGED <<metricsVars, cpc, calls>>
    /\ UNCHANGED <<active_requests, drain_timeout, notify_tail, rx_subscribed, rx_pos>>
    /\ UNCHANGED <<max_connections, next_conn, conn, drain_elapsed>>
    /\ UNCHANGED <<calls_done, late_notifications, rejected, spawned, decs>>
    /\ UNCHANGED <<reqVars, libVars>>

CtrlCSend ==
    /\ main_pc = "ctrlc_send"
    /\ ShutdownSend(clate["ctrlc"])
    /\ main_pc' = "loop_exited"
    /\ UNCHANGED <<metricsVars, callVars>>
    /\ UNCHANGED <<shutdown_initiated, active_requests, drain_timeout, rx_subscribed, rx_pos>>
    /\ UNCHANGED <<max_connections, next_conn, conn, drain_elapsed>>
    /\ UNCHANGED <<sd_transitions, rejected, spawned, decs>>
    /\ UNCHANGED <<reqVars, libVars>>

\* select! branch: shutdown_rx.recv() => break (Ok and Err(Lagged) alike)
SelectRecv ==
    /\ main_pc = "select"
    /\ RecvReady
    /\ rx_pos' = RecvNextPos
    /\ main_pc' = "loop_exited"
    /\ UNCHANGED <<metricsVars, callVars, obsVars>>
    /\ UNCHANGED <<shutdown_initiated, active_requests, drain_timeout, notify_tail, rx_subscribed>>
    /\ UNCHANGED <<max_connections, next_conn, conn, drain_elapsed>>
    /\ UNCHANGED <<reqVars, libVars>>

\* select! branch: listener.accept() returned.  The shutdown flag is read
\* first; an accept error is logged and the loop goes round again.
SelectAccept ==
    /\ main_pc = "select"
    /\ next_conn <= MaxConns
    /\ IF is_shutting_down
       THEN main_pc' = "loop_exited"
       ELSE \E accept_ok \in BOOLEAN :
              main_pc' = IF accept_ok THEN "accept_limit" ELSE "select"
    /\ UNCHANGED <<metricsVars, coordVars, callVars, obsVars>>
    /\ UNCHANGED <<max_connections, next_conn, conn, drain_elapsed>>
    /\ UNCHANGED <<reqVars, libVars>>

\* Variant of AcceptLimit: the ceiling test is > instead of >=
AcceptLimit_OffByOne ==
    /\ main_pc = "accept_limit"
    /\ IF active_connections > max_connections
       THEN /\ main_pc' = "select"
            /\ next_conn' = next_conn + 1
            /\ rejected' = rejected + 1
       ELSE /\ main_pc' = "accept_spawn"
            /\ UNCHANGED <<next_conn, rejected>>
    /\ UNCHANGED <<metricsVars, coordVars, callVars>>
    /\ UNCHANGED <<max_connections, conn, drain_elapsed>>
    /\ UNCHANGED <<sd_transitions, calls_done, late_notifications, spawned, decs>>
    /\ UNCHANGED <<reqVars, libVars>>

\* The ceiling check on the accepted stream: active_connections.load() >=
\* max_connections rejects it (continue); the stream is dropped.
AcceptLimit ==
    /\ main_pc = "accept_limit"
    /\ IF active_connections >= max_connections
       THEN /\ main_pc' = "select"
            /\ next_conn' = next_conn + 1
            /\ rejected' = rejected + 1
       ELSE /\ main_pc' = "accept_spawn"
            /\ UNCHANGED <<next_conn, rejected>>
    /\ UNCHANGED <<metricsVars, coordVars, callVars>>
    /\ UNCHANGED <<max_connections, conn, drain_elapsed>>
    /\ UNCHANGED <<sd_transitions, calls_done, late_notifications, spawned, decs>>
    /\ UNCHANGED <<reqVars, libVars>>

\* metrics.inc_connections(); tokio::task::spawn(connection task)
AcceptSpawn ==
    /\ main_pc = "accept_spawn"
    /\ active_connections' = inc_connections(active_connections)
    /\ conn' = [conn EXCEPT ![next_conn] = "serving"]
    /\ next_conn' = next_conn + 1
    /\ spawned' = spawned + 1
    /\ main_pc' = "select"
    /\ UNCHANGED <<total_requests, bytes_received, bytes_sent, total_errors, latencies>>
    /\ UNCHANGED <<coordVars, callVars, max_connections, drain_elapsed>>
    /\ UNCHANGED <<sd_transitions, calls_done, late_notifications, rejected, decs>>
    /\ UNCHANGED <<reqVars, libVars>>

\* After the loop: if shutdown.active_requests() > 0 { shutdown.drain().await }
AfterLoop ==
    /\ main_pc = "loop_exited"
    /\ main_pc' = IF active_requests > 0 THEN "drain" ELSE "returned"
    /\ drain_elapsed' = 0
    /\ UNCHANGED <<metricsVars, coordVars, callVars, obsVars>>
    /\ UNCHANGED <<max_connections, next_conn, conn>>
    /\ UNCHANGED <<reqVars, libVars>>

\* Variant of DrainTimedOut: the timeout counts as elapsed when it is reached
DrainTimedOut_AtTimeout == drain_elapsed >= drain_timeout

\* Variant of DrainTimedOut: the timeout is never taken
DrainTimedOut_Never == FALSE

\* start.elapsed() > self.drain_timeout
DrainTimedOut == drain_elapsed > drain_timeout

\* One turn of the loop in drain(): leave when no request is active or the
\* timeout has elapsed, else sleep 100ms (at least one poll period passes)
DrainPoll ==
    /\ main_pc = "drain"
    /\ IF active_requests > 0
       THEN IF DrainTimedOut
            THEN /\ main_pc' = "returned"
                 /\ UNCHANGED drain_elapsed
            ELSE /\ drain_elapsed < MaxElapsed
                 /\ drain_elapsed' = drain_elapsed + 1
                 /\ UNCHANGED main_pc
       ELSE /\ main_pc' = "returned"
            /\ UNCHANGED drain_elapsed
    /\ UNCHANGED <<metricsVars, coordVars, callVars, obsVars>>
    /\ UNCHANGED <<max_connections, next_conn, conn>>
    /\ UNCHANGED <<reqVars, libVars>>

\* ------------------------------------------------------------------------
\* The connection task spawned by the accept loop
\* ------------------------------------------------------------------------
\* The service closure starts on a request: shutdown.request_started(), then
\* handle_request begins with metrics.inc_requests()
ReqStart(c) ==
    /\ conn[c] = "serving"
    /\ total_requests < MaxRequests
    /\ active_requests' = request_started(active_requests)
    /\ total_requests' = inc_requests(total_requests)
    /\ conn' = [conn EXCEPT ![c] = "in_request"]
    /\ UNCHANGED <<active_connections, bytes_received, bytes_sent, total_errors, latencies>>
    /\ UNCHANGED <<shutdown_initiated, drain_timeout, notify_tail, rx_subscribed, rx_pos>>
    /\ UNCHANGED <<max_connections, main_pc, next_conn, drain_elapsed>>
    /\ UNCHANGED <<callVars, obsVars>>
    /\ UNCHANGED <<reqVars, libVars>>

\* handle_request returned: metrics.record_latency(..); shutdown.request_finished()
ReqFinish(c) ==
    /\ conn[c] = "in_request"
    /\ latencies' = record_latency(latencies, total_requests, 0)
    /\ active_requests' = request_finished(active_requests)
    /\ conn' = [conn EXCEPT ![c] = "serving"]
    /\ UNCHANGED <<total_requests, active_connections, bytes_received, bytes_sent, total_errors>>
    /\ UNCHANGED <<shutdown_initiated, drain_timeout, notify_tail, rx_subscribed, rx_pos>>
    /\ UNCHANGED <<max_connections, main_pc, next_conn, drain_elapsed>>
    /\ UNCHANGED <<callVars, obsVars>>
    /\ UNCHANGED <<reqVars, libVars>>

\* A panic while the request is handled unwinds the spawned task: the
\* statements after the awaits (request_finished, dec_connections) never run
ReqPanic(c) ==
    /\ conn[c] = "in_request"
    /\ conn' = [conn EXCEPT ![c] = "panicked"]
    /\ UNCHANGED <<metricsVars, coordVars, callVars, obsVars>>
    /\ UNCHANGED <<max_connections, main_pc, next_conn, drain_elapsed>>
    /\ UNCHANGED <<reqVars, libVars>>

\* The peer goes away while the request is handled: serve_connection drops
\* the service future where it is suspended and returns
ReqDropped(c) ==
    /\ conn[c] = "in_request"
    /\ conn' = [conn EXCEPT ![c] = "serve_done"]
    /\ UNCHANGED <<metricsVars, coordVars, callVars, obsVars>>
    /\ UNCHANGED <<max_connections, main_pc, next_conn, drain_elapsed>>
    /\ UNCHANGED <<reqVars, libVars>>

\* serve_connection returns between requests: Ok on a clean close, Err on a
\* connection error (logged unless it is an incomplete message)
ConnClose(c) ==
    /\ conn[c] = "serving"
    /\ conn' = [conn EXCEPT ![c] = "serve_done"]
    /\ UNCHANGED <<metricsVars, coordVars, callVars, obsVars>>
    /\ UNCHANGED <<max_connections, main_pc, next_conn, drain_elapsed>>
    /\ UNCHANGED <<reqVars, libVars>>

\* metrics_for_cleanup.dec_connections(), the task's last statement
ConnCleanup(c) ==
    /\ conn[c] = "serve_done"
    /\ active_connections' = dec_connections(active_connections)
    /\ conn' = [conn EXCEPT ![c] = "ended"]
    /\ decs' = [decs EXCEPT ![c] = @ + 1]
    /\ UNCHANGED <<total_requests, bytes_received, bytes_sent, total_errors, latencies>>
    /\ UNCHANGED <<coordVars, callVars>>
    /\ UNCHANGED <<max_connections, main_pc, next_conn, drain_elapsed>>
    /\ UNCHANGED <<sd_transitions, calls_done, late_notifications, rejected, spawned>>
    /\ UNCHANGED <<reqVars, libVars>>

\* ------------------------------------------------------------------------
\* Values handled by handle_request
\* ------------------------------------------------------------------------
\* Option<T>
None == <<>>
Some(x) == <<x>>
IsSome(o) == Len(o) > 0
IsNone(o) == Len(o) = 0
Unwrap(o) == o[1]

\* A map with no entry
EmptyMap == <<>>

\* The bytes of the strings the model uses, one element per byte
Chars(s) ==
    CASE s = "GET" -> <<"G", "E", "T">>
      [] s = "HEAD" -> <<"H", "E", "A", "D">>
      [] s = "OPTIONS" -> <<"O", "P", "T", "I", "O", "N", "S">>
      [] s = "DELETE" -> <<"D", "E", "L", "E", "T", "E">>
      [] s = "POST" -> <<"P", "O", "S", "T">>
      [] s = "PUT" -> <<"P", "U", "T">>
      [] s = "/ping" -> <<"/", "p", "i", "n", "g">>
      [] s = "/missing" -> <<"/", "m", "i", "s", "s", "i", "n", "g">>
      [] s = "Not Found: " -> <<"N", "o", "t", " ", "F", "o", "u", "n", "d", ":", " ">>
      [] s = "Internal Server Error" ->
           <<"I", "n", "t", "e", "r", "n", "a", "l", " ", "S", "e", "r", "v", "e", "r",
             " ", "E", "r", "r", "o", "r">>
      [] s = "{\"ok\":true}" -> <<"{", "\"", "o", "k", "\"", ":", "t", "r", "u", "e", "}">>
      [] s = "{\"a\":1}" -> <<"{", "\"", "a", "\"", ":", "1", "}">>
      [] s = "boom" -> <<"b", "o", "o", "m">>
      [] s = "Forbidden" -> <<"F", "o", "r", "b", "i", "d", "d", "e", "n">>
      [] s = "denied" -> <<"d", "e", "n", "i", "e", "d">>
      [] s = "hi" -> <<"h", "i">>
      [] s = "v" -> <<"v">>
      [] s = "two words" -> <<"t", "w", "o", " ", "w", "o", "r", "d", "s">>
      [] s = "a=1&b=two+words" ->
           <<"a", "=", "1", "&", "b", "=", "t", "w", "o", "+", "w", "o", "r", "d", "s">>
      [] s = "a%20b=%FF&&c" ->
           <<"a", "%", "2", "0", "b", "=", "%", "F", "F", "&", "&", "c">>
      [] s = "" -> <<>>

\* String::from of bytes the model knows as text
KnownTexts == {"v", "hi", "boom", ""}
Text(bytes) == CHOOSE s \in KnownTexts : Chars(s) = bytes

\* t occurs in s as a contiguous run
Contains(s, t) ==
    \E i \in 0..(Len(s) - Len(t)) : SubSeq(s, i + 1, i + Len(t)) = t

\* ---- the requests and capabilities tried -------------------------------
Methods == {"GET", "HEAD", "OPTIONS", "DELETE", "POST", "PUT"}
Paths == {"/ping", "/missing"}
QueryStrings == {"a=1&b=two+words"}
WireBodies == {Chars(""), Chars("hi")}
\* header values as received: valid UTF-8 text or not
WireHeaderSets ==
    { ("x-a" :> [utf8 |-> TRUE, text |-> "v"]) @@ ("x-b" :> [utf8 |-> FALSE, text |-> "raw"]) }

\* Router::match_route over the route table built at startup
Routes ==
    { [method |-> "GET", path |-> "/ping", handler_id |-> 0],
      [method |-> "HEAD", path |-> "/ping", handler_id |-> 1],
      [method |-> "OPTIONS", path |-> "/ping", handler_id |-> 2],
      [method |-> "DELETE", path |-> "/ping", handler_id |-> 3],
      [method |-> "POST", path |-> "/ping", handler_id |-> 4] }

match_route(method, path) ==
    LET hits == {r \in Routes : r.method = method /\ r.path = path}
    IN IF hits = {}
       THEN None
       ELSE Some([handler_id |-> (CHOOSE r \in hits : TRUE).handler_id,
                  params |-> EmptyMap])

\* ---- query string parsing (handle_request, the query block) -------------
RECURSIVE Split(_, _)
\* str::split(sep): the segments between separators, empty ones included
Split(s, sep) ==
    IF \A i \in 1..Len(s) : s[i] # sep
    THEN <<s>>
    ELSE LET i == CHOOSE j \in 1..Len(s) :
                    s[j] = sep /\ \A m \in 1..(j - 1) : s[m] # sep
         IN <<SubSeq(s, 1, i - 1)>> \o Split(SubSeq(s, i + 1, Len(s)), sep)

\* pair.splitn(2, '='): the key, and the value if there is an '='
SplitN2(pair) ==
    IF \A i \in 1..Len(pair) : pair[i] # "="
    THEN [key |-> pair, value |-> None]
    ELSE LET i == CHOOSE j \in 1..Len(pair) :
                    pair[j] = "=" /\ \A m \in 1..(j - 1) : pair[m] # "="
         IN [key |-> SubSeq(pair, 1, i - 1),
             value |-> Some(SubSeq(pair, i + 1, Len(pair)))]

\* Variant of ReplacePlus: '+' is left as it is
ReplacePlus_Keep(s) == s

\* value.replace('+', " ")
ReplacePlus(s) == [i \in 1..Len(s) |-> IF s[i] = "+" THEN " " ELSE s[i]]

HexDigits == {"0", "1", "2", "3", "4", "5", "6", "7", "8", "9",
              "A", "B", "C", "D", "E", "F", "a", "b", "c", "d", "e", "f"}
HexVal(c) ==
    CASE c = "0" -> 0 [] c = "1" -> 1 [] c = "2" -> 2 [] c = "3" -> 3
      [] c = "4" -> 4 [] c = "5" -> 5 [] c = "6" -> 6 [] c = "7" -> 7
      [] c = "8" -> 8 [] c = "9" -> 9
      [] c \in {"A", "a"} -> 10 [] c \in {"B", "b"} -> 11
      [] c \in {"C", "c"} -> 12 [] c \in {"D", "d"} -> 13
      [] c \in {"E", "e"} -> 14 [] c \in {"F", "f"} -> 15

\* The byte a decoded escape stands for: an ASCII byte is its character, a
\* byte of 128 or more is written <XX>
ByteChar(n) ==
    CASE n = 32 -> " " [] n = 38 -> "&" [] n = 43 -> "+" [] n = 61 -> "="
      [] n = 255 -> "<FF>"
HighBytes == {"<FF>"}

RECURSIVE PercentDecode(_)
\* urlencoding::decode_binary: %XX with two hex digits becomes one byte,
\* anything else is copied
PercentDecode(s) ==
    IF s = <<>> THEN <<>>
    ELSE IF /\ s[1] = "%"
            /\ Len(s) >= 3
            /\ s[2] \in HexDigits
            /\ s[3] \in HexDigits
         THEN <<ByteChar(16 * HexVal(s[2]) + HexVal(s[3]))>>
                 \o PercentDecode(SubSeq(s, 4, Len(s)))
         ELSE <<s[1]>> \o PercentDecode(Tail(s))

\* String::from_utf8 on the decoded bytes: a lone byte of 128 or more is
\* not UTF-8 (the inputs tried hold no multi-byte sequence)
Utf8Valid(bytes) == \A i \in 1..Len(bytes) : bytes[i] \notin HighBytes

\* urlencoding::decode(s).unwrap_or_default()
DecodeOrDefault(s) ==
    LET bytes == PercentDecode(s)
    IN IF Utf8Valid(bytes) THEN bytes ELSE <<>>

\* One pair of the query string as the (key, value) entry it yields
QueryEntry(pair) ==
    LET parts == SplitN2(pair)
    IN [key |-> DecodeOrDefault(parts.key),
        value |-> IF IsSome(parts.value)
                  THEN DecodeOrDefault(ReplacePlus(Unwrap(parts.value)))
                  ELSE <<>>]

RECURSIVE CollectMap(_)
\* .collect() into a HashMap: a later entry replaces an earlier one
CollectMap(entries) ==
    IF entries = <<>> THEN EmptyMap
    ELSE LET last == entries[Len(entries)]
             rest == CollectMap(SubSeq(entries, 1, Len(entries) - 1))
         IN [k \in (DOMAIN rest) \cup {last.key} |->
               IF k = last.key THEN last.value ELSE rest[k]]

ParseQuery(query_string) ==
    IF query_string = <<>>
    THEN EmptyMap
    ELSE LET pairs == SelectSeq(Split(query_string, "&"), LAMBDA p : p # <<>>)
         IN CollectMap([i \in 1..Len(pairs) |-> QueryEntry(pairs[i])])

\* ---- header collection ---------------------------------------------------
\* v.to_str().unwrap_or("")
CollectHeaders(wire_headers) ==
    [k \in DOMAIN wire_headers |->
       IF wire_headers[k].utf8 THEN wire_headers[k].text ELSE ""]

\* ---- Request --------------------------------------------------------------
\* Variant of Bodyless: DELETE is treated as carrying a payload
Bodyless_NoDelete(method) == method \in {"GET", "HEAD", "OPTIONS"}

Bodyless(method) == method \in {"GET", "HEAD", "OPTIONS", "DELETE"}

Request_from_http(method, path, params, query, headers, body) ==
    [method |-> method, path |-> path, params |-> params, query |-> query,
     headers |-> headers, body |-> body]

clone_without_body(request) == [request EXCEPT !.body = <<>>]

Request_default ==
    [method |-> "", path |-> "", params |-> EmptyMap, query |-> EmptyMap,
     headers |-> EmptyMap, body |-> <<>>]

\* ---- Response -------------------------------------------------------------
JsonContentType == ("Content-Type" :> "application/json")

Response_new(status) == [status |-> status, headers |-> EmptyMap, body |-> <<>>]
Response_not_found(message) == [status |-> 404, headers |-> EmptyMap, body |-> message]
Response_error(status, message) ==
    [status |-> status, headers |-> EmptyMap, body |-> message]
Response_from_json_bytes(bytes, status) ==
    [status |-> status, headers |-> JsonContentType, body |-> bytes]
set_header(response, key, value) ==
    [response EXCEPT !.headers =
        [k \in (DOMAIN response.headers) \cup {key} |->
           IF k = key THEN value ELSE response.headers[k]]]
set_body(response, body) == [response EXCEPT !.body = body]

\* Variant of NotFoundText: the message leaves the path out
NotFoundText_NoPath(method, path) ==
    Chars("Not Found: ") \o Chars(method)

\* format!("Not Found: {method_str} {path}")
NotFoundText(method, path) ==
    Chars("Not Found: ") \o Chars(method) \o <<" ">> \o Chars(path)

\* ---- the wire response ----------------------------------------------------
\* StatusCode::from_u16(status).unwrap_or(INTERNAL_SERVER_ERROR)
WireStatus(status) == IF status >= 100 /\ status <= 999 THEN status ELSE 500

\* Header names are case-insensitive on the wire; the builder lower-cases them
HeaderName(k) ==
    CASE k = "Content-Type" -> "content-type"
      [] k = "X-H" -> "x-h"
      [] OTHER -> k

\* A header the builder refuses: a name that is not a token
ValidHeaderName(k) == k # "bad name"

\* HyperResponse::builder().status(..).header(..)*.body(..).unwrap_or_else(..):
\* a refused header makes body() fail, and the fixed response replaces it
InternalServerErrorBody == Chars("Internal Server Error")
HyperResponse_new(body) == [status |-> 200, headers |-> EmptyMap, body |-> body]

HyperBuild(status, headers, body) ==
    IF \A k \in DOMAIN headers : ValidHeaderName(k)
    THEN [status |-> status,
          headers |-> [n \in {HeaderName(k) : k \in DOMAIN headers} |->
                         headers[CHOOSE k \in DOMAIN headers : HeaderName(k) = n]],
          body |-> body]
    ELSE HyperResponse_new(InternalServerErrorBody)

\* build_hyper_response: the wire response, and the bytes it records as sent
build_hyper_response(response) ==
    HyperBuild(WireStatus(response.status), response.headers, response.body)
build_hyper_bytes_sent(response) == Len(response.body)

\* Variant of FastPathResponse: the Content-Type header is not set
FastPathResponse_NoContentType(bytes) == HyperBuild(200, EmptyMap, bytes)

\* The fast path of handle_request: the wire response built from the bytes
FastPathResponse(bytes) == HyperBuild(200, JsonContentType, bytes)
FastPathBytesSent(bytes) == Len(bytes)

\* ---- handler results -------------------------------------------------------
\* serde_json::Value, tagged by its variant
JNull == [t |-> "null", b |-> FALSE, n |-> 0, s |-> <<>>, o |-> <<>>]
JBool(b) == [JNull EXCEPT !.t = "bool", !.b = b]
JNum(n) == [JNull EXCEPT !.t = "num", !.n = n]
JStr(s) == [JNull EXCEPT !.t = "str", !.s = s]
JObj(f) == [JNull EXCEPT !.t = "obj", !.o = f]

as_object(j) == IF j.t = "obj" THEN Some(j.o) ELSE None
as_bool(j) == IF j.t = "bool" THEN Some(j.b) ELSE None
as_u64(j) == IF j.t = "num" /\ j.n >= 0 THEN Some(j.n) ELSE None
as_str(j) == IF j.t = "str" THEN Some(j.s) ELSE None
get(obj, key) == IF key \in DOMAIN obj THEN Some(obj[key]) ELSE None
and_then_as_bool(o) == IF IsSome(o) THEN as_bool(Unwrap(o)) ELSE None
and_then_as_u64(o) == IF IsSome(o) THEN as_u64(Unwrap(o)) ELSE None
and_then_as_str(o) == IF IsSome(o) THEN as_str(Unwrap(o)) ELSE None
and_then_as_object(o) == IF IsSome(o) THEN as_object(Unwrap(o)) ELSE None
unwrap_or(o, d) == IF IsSome(o) THEN Unwrap(o) ELSE d

PlainObject == JObj(("a" :> JNum(1)))
RichObject ==
    JObj(("__cello_response__" :> JBool(TRUE)) @@ ("status" :> JNum(201))
         @@ ("headers" :> JObj(("X-H" :> JStr(Chars("v"))))) @@ ("body" :> JStr(Chars("hi"))))

\* A Response object one of whose header names is not a valid header name
BadHeaderObject ==
    JObj(("__cello_response__" :> JBool(TRUE))
         @@ ("headers" :> JObj(("bad name" :> JStr(Chars("v"))))) @@ ("body" :> JStr(Chars("hi"))))

\* serde_json::to_vec of the values tried
JsonText(value) ==
    CASE value = PlainObject -> Chars("{\"a\":1}")
      [] OTHER -> <<ToString(value)>>

Response_from_json_value(value, status) ==
    [status |-> status, headers |-> JsonContentType, body |-> JsonText(value)]

\* HandlerResult / Err(String) as returned by invoke_async
JsonBytes(bytes) == [kind |-> "bytes", bytes |-> bytes, value |-> JNull, err |-> <<>>]
JsonValue(value) == [kind |-> "value", bytes |-> <<>>, value |-> value, err |-> <<>>]
HandlerErr(err) == [kind |-> "err", bytes |-> <<>>, value |-> JNull, err |-> err]

HandlerResults ==
    { JsonBytes(Chars("{\"ok\":true}")), JsonValue(PlainObject), JsonValue(RichObject),
      JsonValue(BadHeaderObject), HandlerErr(Chars("boom")) }

\* Response rebuilt from an object carrying the reserved marker
RichResponse(obj) ==
    LET status == unwrap_or(and_then_as_u64(get(obj, "status")), 200) % 65536
        body == unwrap_or(and_then_as_str(get(obj, "body")), <<>>)
        headers == unwrap_or(and_then_as_object(get(obj, "headers")), EmptyMap)
        copied == {k \in DOMAIN headers : IsSome(as_str(headers[k]))}
        resp == set_body(Response_new(status), body)
    IN [resp EXCEPT !.headers =
          [k \in (DOMAIN resp.headers) \cup copied |->
             IF k \in copied THEN Text(headers[k].s) ELSE resp.headers[k]]]

\* Variant of ResponseOf: a handler error is answered with status 200
ResponseOf_ErrorAs200(result) ==
    CASE result.kind = "bytes" -> Response_from_json_bytes(result.bytes, 200)
      [] result.kind = "value" ->
           LET obj == as_object(result.value)
           IN IF IsSome(obj)
                 /\ unwrap_or(and_then_as_bool(get(Unwrap(obj), "__cello_response__")), FALSE)
              THEN RichResponse(Unwrap(obj))
              ELSE Response_from_json_value(result.value, 200)
      [] result.kind = "err" -> Response_error(200, result.err)

\* The generic response for a handler result (the match on `result`)
ResponseOf(result) ==
    CASE result.kind = "bytes" -> Response_from_json_bytes(result.bytes, 200)
      [] result.kind = "value" ->
           LET obj == as_object(result.value)
           IN IF IsSome(obj)
                 /\ unwrap_or(and_then_as_bool(get(Unwrap(obj), "__cello_response__")), FALSE)
              THEN RichResponse(Unwrap(obj))
              ELSE Response_from_json_value(result.value, 200)
      [] result.kind = "err" -> Response_error(500, result.err)

\* ---- middleware, guard and hook outcomes ------------------------------------
StopResponse ==
    [status |-> 403, headers |-> ("Content-Type" :> "text/plain"), body |-> Chars("Forbidden")]
NoResponse == Response_new(0)

Continue(mutate) ==
    [kind |-> "continue", mutate |-> mutate, response |-> NoResponse,
     status |-> 0, message |-> <<>>]
Stop(response) ==
    [kind |-> "stop", mutate |-> FALSE, response |-> response,
     status |-> 0, message |-> <<>>]
Failure(status, message) ==
    [kind |-> "fail", mutate |-> FALSE, response |-> NoResponse,
     status |-> status, message |-> message]

MwOutcomes ==
    { Continue(FALSE), Continue(TRUE), Stop(StopResponse), Failure(401, Chars("denied")) }

\* What a stage that continues may do to the &mut Request / &mut Response
MutateRequest(request) ==
    [request EXCEPT !.headers =
        [k \in (DOMAIN request.headers) \cup {"x-mw"} |->
           IF k = "x-mw" THEN "1" ELSE request.headers[k]]]
MutateResponse(response) == set_header(response, "x-after", "1")

\* ------------------------------------------------------------------------
\* handle_request, stage by stage
\* ------------------------------------------------------------------------
IdleRq ==
    [pc |-> "idle", method |-> "", path |-> "", wire_query |-> <<>>,
     wire_headers |-> EmptyMap, wire_body |-> <<>>,
     route |-> None, query |-> EmptyMap, headers |-> EmptyMap,
     request |-> None, handed |-> None, has_after |-> FALSE, after_request |-> None,
     result |-> None, response |-> None, out |-> None,
     fast |-> FALSE, body_err |-> FALSE, stop |-> None, fail |-> None,
     hook_after |-> "none",
     built |-> None, trace |-> <<>>,
     m0 |-> [total_requests |-> 0, bytes_received |-> 0, bytes_sent |-> 0,
             total_errors |-> 0, handler_calls |-> 0]]

MetricsNow ==
    [total_requests |-> total_requests, bytes_received |-> bytes_received,
     bytes_sent |-> bytes_sent, total_errors |-> total_errors,
     handler_calls |-> handler_calls]

\* return build_hyper_response(&response, metrics)
Returned(r, response) ==
    [r EXCEPT !.pc = "done", !.built = Some(response),
              !.out = Some(build_hyper_response(response))]

serverFrame == <<active_connections, latencies, coordVars, runVars, callVars, obsVars, libVars>>

\* inc_requests, route match and, on a match, query and header collection.
\* No match: the 404 is returned at once.  A method without payload drops
\* the body unread and the Request is built; otherwise the body is awaited.
RouteStage ==
    /\ rq.pc = "idle"
    /\ served' = served + 1
    /\ total_requests' = inc_requests(total_requests)
    /\ \E method \in Methods, path \in Paths, qs \in QueryStrings,
          wh \in WireHeaderSets, wb \in WireBodies :
         LET route_match == match_route(method, path)
             start == [IdleRq EXCEPT !.method = method, !.path = path,
                                     !.wire_query = Chars(qs), !.wire_headers = wh,
                                     !.wire_body = wb, !.route = route_match,
                                     !.m0 = MetricsNow]
         IN IF IsNone(route_match)
            THEN LET response == Response_not_found(NotFoundText(method, path))
                 IN /\ rq' = Returned(start, response)
                    /\ bytes_sent' = add_bytes_sent(bytes_sent, build_hyper_bytes_sent(response))
            ELSE LET query == ParseQuery(Chars(qs))
                     headers == CollectHeaders(wh)
                     parsed == [start EXCEPT
                                  !.query = query, !.headers = headers,
                                  !.trace = (IF qs = "" THEN <<>> ELSE <<"query">>)
                                              \o <<"headers">>]
                 IN /\ rq' = IF Bodyless(method)
                             THEN [parsed EXCEPT
                                     !.pc = "mw_before",
                                     !.request = Some(Request_from_http(
                                         method, path, Unwrap(route_match).params,
                                         query, headers, <<>>))]
                             ELSE [parsed EXCEPT !.pc = "body"]
                    /\ UNCHANGED bytes_sent
    /\ UNCHANGED <<bytes_received, total_errors, cfg, handler_calls>>
    /\ UNCHANGED serverFrame

\* req.collect().await returned: the bytes (counted when non-empty), or a
\* read error (counted as an error, empty body); then the Request is built
BodyStage ==
    /\ rq.pc = "body"
    /\ \E read_ok \in BOOLEAN :
         LET body_bytes == IF read_ok THEN rq.wire_body ELSE <<>>
         IN /\ bytes_received' = IF read_ok /\ rq.wire_body # <<>>
                                 THEN add_bytes_received(bytes_received, Len(rq.wire_body))
                                 ELSE bytes_received
            /\ total_errors' = IF read_ok THEN total_errors ELSE inc_errors(total_errors)
            /\ rq' = [rq EXCEPT
                        !.pc = "mw_before",
                        !.body_err = ~read_ok,
                        !.trace = Append(@, "body"),
                        !.request = Some(Request_from_http(
                            rq.method, rq.path, Unwrap(rq.route).params,
                            rq.query, rq.headers, body_bytes))]
    /\ UNCHANGED <<total_requests, bytes_sent, cfg, handler_calls, served>>
    /\ UNCHANGED serverFrame

\* A stage that is not registered / configured is skipped
SkipTo(next_pc) ==
    /\ rq' = [rq EXCEPT !.pc = next_pc]
    /\ UNCHANGED <<bytes_sent, total_errors>>

\* Variant of BeforeOutcome: a Stop is noted but the pipeline goes on
BeforeOutcome_StopContinues(stage, next_pc, o) ==
    CASE o.kind \in {"continue", "stop"} ->
           /\ rq' = [rq EXCEPT
                       !.pc = next_pc,
                       !.trace = Append(@, stage),
                       !.stop = IF o.kind = "stop"
                                THEN Some([stage |-> stage, response |-> o.response])
                                ELSE @,
                       !.request = IF o.mutate THEN Some(MutateRequest(Unwrap(@))) ELSE @]
           /\ UNCHANGED <<bytes_sent, total_errors>>
      [] o.kind = "fail" ->
           LET response == Response_error(o.status, o.message)
           IN /\ total_errors' = inc_errors(total_errors)
              /\ rq' = Returned([rq EXCEPT
                                   !.trace = Append(@, stage),
                                   !.fail = Some([stage |-> stage, status |-> o.status,
                                                  message |-> o.message])],
                                response)
              /\ bytes_sent' = add_bytes_sent(bytes_sent, build_hyper_bytes_sent(response))

\* Variant of BeforeOutcome: a failure is answered but not counted
BeforeOutcome_FailNotCounted(stage, next_pc, o) ==
    IF o.kind = "fail"
    THEN LET response == Response_error(o.status, o.message)
         IN /\ UNCHANGED total_errors
            /\ rq' = Returned([rq EXCEPT
                                 !.trace = Append(@, stage),
                                 !.fail = Some([stage |-> stage, status |-> o.status,
                                                message |-> o.message])],
                              response)
            /\ bytes_sent' = add_bytes_sent(bytes_sent, build_hyper_bytes_sent(response))
    ELSE IF o.kind = "stop"
    THEN /\ rq' = Returned([rq EXCEPT
                              !.trace = Append(@, stage),
                              !.stop = Some([stage |-> stage, response |-> o.response])],
                           o.response)
         /\ bytes_sent' = add_bytes_sent(bytes_sent, build_hyper_bytes_sent(o.response))
         /\ UNCHANGED total_errors
    ELSE BeforeOutcome_StopContinues(stage, next_pc, o)

\* Variant of BeforeOutcome: only a Stop from the guards ends the pipeline
BeforeOutcome_StopOnlyAtGuards(stage, next_pc, o) ==
    IF stage = "guards" /\ o.kind = "stop"
    THEN /\ rq' = Returned([rq EXCEPT
                              !.trace = Append(@, stage),
                              !.stop = Some([stage |-> stage, response |-> o.response])],
                           o.response)
         /\ bytes_sent' = add_bytes_sent(bytes_sent, build_hyper_bytes_sent(o.response))
         /\ UNCHANGED total_errors
    ELSE BeforeOutcome_StopContinues(stage, next_pc, o)

\* The match on a before stage's result
BeforeOutcome(stage, next_pc, o) ==
    CASE o.kind = "continue" ->
           /\ rq' = [rq EXCEPT
                       !.pc = next_pc,
                       !.trace = Append(@, stage),
                       !.request = IF o.mutate THEN Some(MutateRequest(Unwrap(@))) ELSE @]
           /\ UNCHANGED <<bytes_sent, total_errors>>
      [] o.kind = "stop" ->
           /\ rq' = Returned([rq EXCEPT
                                !.trace = Append(@, stage),
                                !.stop = Some([stage |-> stage, response |-> o.response])],
                             o.response)
           /\ bytes_sent' = add_bytes_sent(bytes_sent, build_hyper_bytes_sent(o.response))
           /\ UNCHANGED total_errors
      [] o.kind = "fail" ->
           LET response == Response_error(o.status, o.message)
           IN /\ total_errors' = inc_errors(total_errors)
              /\ rq' = Returned([rq EXCEPT
                                   !.trace = Append(@, stage),
                                   !.fail = Some([stage |-> stage, status |-> o.status,
                                                  message |-> o.message])],
                                response)
              /\ bytes_sent' = add_bytes_sent(bytes_sent, build_hyper_bytes_sent(response))

\* The hook slot is an RwLock<Option<..>>: cfg.readers counts the read guards
\* the request task holds on it.  prometheus.read() takes one ...
prometheus_read(c) == [c EXCEPT !.readers = @ + 1]

\* Variant of drop_prom_guard: the guard is kept
drop_prom_guard_Kept(c) == c

\* ... and the end of the guard's block, or drop(prom_guard), gives it back
drop_prom_guard(c) == [c EXCEPT !.readers = @ - 1]

\* let prom_guard = prometheus.read(); at each of the three places
\* handle_request looks at the slot
ReadHookSlot ==
    /\ rq.pc \in {"prom_before", "fast_check", "prom_after"}
    /\ cfg.readers = 0
    /\ cfg' = prometheus_read(cfg)
    /\ UNCHANGED <<metricsVars, rq, handler_calls, served>>
    /\ UNCHANGED <<coordVars, runVars, callVars, obsVars, libVars>>

\* if !middleware.is_empty() { middleware.execute_before(&mut request) }
MwBeforeStage ==
    /\ rq.pc = "mw_before"
    /\ IF cfg.mw_sync
       THEN \E o \in MwOutcomes : BeforeOutcome("mw_before", "mw_before_async", o)
       ELSE SkipTo("mw_before_async")
    /\ UNCHANGED <<total_requests, bytes_received, cfg, handler_calls, served>>
    /\ UNCHANGED serverFrame

\* if !middleware.is_async_empty() { middleware.execute_before_async(..).await }
MwBeforeAsyncStage ==
    /\ rq.pc = "mw_before_async"
    /\ IF cfg.mw_async
       THEN \E o \in MwOutcomes : BeforeOutcome("mw_before_async", "prom_before", o)
       ELSE SkipTo("prom_before")
    /\ UNCHANGED <<total_requests, bytes_received, cfg, handler_calls, served>>
    /\ UNCHANGED serverFrame

\* prometheus.read(): if the slot is Some(p), p.before(&mut request)
PromBeforeStage ==
    /\ rq.pc = "prom_before"
    /\ cfg.readers > 0
    /\ IF cfg.prometheus
       THEN \E o \in MwOutcomes : BeforeOutcome("prom_before", "guards", o)
       ELSE SkipTo("guards")
    /\ cfg' = drop_prom_guard(cfg)
    /\ UNCHANGED <<total_requests, bytes_received, handler_calls, served>>
    /\ UNCHANGED serverFrame

\* if guards.has_guards() { Middleware::before(&**guards, &mut request) }
GuardsStage ==
    /\ rq.pc = "guards"
    /\ IF cfg.guards
       THEN \E o \in MwOutcomes : BeforeOutcome("guards", "invoke", o)
       ELSE SkipTo("invoke")
    /\ UNCHANGED <<total_requests, bytes_received, cfg, handler_calls, served>>
    /\ UNCHANGED serverFrame

\* has_after_middleware, the body-less clone kept for the after stages, and
\* handlers.invoke_async(handler_id, request, ..): the request is moved
InvokeHandler ==
    /\ rq.pc = "invoke"
    /\ LET has_after_middleware == cfg.mw_sync \/ cfg.mw_async
       IN rq' = [rq EXCEPT
                   !.pc = "handler",
                   !.has_after = has_after_middleware,
                   !.after_request = IF has_after_middleware
                                     THEN Some(clone_without_body(Unwrap(rq.request)))
                                     ELSE None,
                   !.handed = rq.request,
                   !.request = None,
                   !.trace = Append(@, "handler")]
    /\ handler_calls' = handler_calls + 1
    /\ UNCHANGED <<total_requests, bytes_received, bytes_sent, total_errors, cfg, served>>
    /\ UNCHANGED serverFrame

\* The handler's future completes; then `!has_after_middleware &&
\* !guards.has_guards()` decides whether the hook slot is looked at
HandlerReturns ==
    /\ rq.pc = "handler"
    /\ \E result \in HandlerResults :
         rq' = [rq EXCEPT
                  !.result = Some(result),
                  !.pc = IF ~rq.has_after /\ ~cfg.guards THEN "fast_check" ELSE "build"]
    /\ UNCHANGED <<total_requests, bytes_received, bytes_sent, total_errors>>
    /\ UNCHANGED <<cfg, handler_calls, served>>
    /\ UNCHANGED serverFrame

\* prometheus.read().is_none(): with no hook and Ok(JsonBytes(bytes)) the wire
\* response is built from the bytes directly
FastPathCheck ==
    /\ rq.pc = "fast_check"
    /\ cfg.readers > 0
    /\ LET result == Unwrap(rq.result)
       IN IF ~cfg.prometheus /\ result.kind = "bytes"
          THEN /\ bytes_sent' = add_bytes_sent(bytes_sent, FastPathBytesSent(result.bytes))
               /\ rq' = [rq EXCEPT !.pc = "done", !.fast = TRUE,
                                   !.out = Some(FastPathResponse(result.bytes))]
          ELSE /\ rq' = [rq EXCEPT !.pc = "build"]
               /\ UNCHANGED bytes_sent
    /\ cfg' = drop_prom_guard(cfg)
    /\ UNCHANGED <<total_requests, bytes_received, total_errors>>
    /\ UNCHANGED <<handler_calls, served>>
    /\ UNCHANGED serverFrame

\* after_request.unwrap_or_default(), and the generic Response for the
\* handler's result; a handler error counts as an error and becomes a 500
BuildResponse ==
    /\ rq.pc = "build"
    /\ LET result == Unwrap(rq.result)
       IN /\ total_errors' = IF result.kind = "err"
                             THEN inc_errors(total_errors) ELSE total_errors
          /\ rq' = [rq EXCEPT
                      !.pc = "after_async",
                      !.request = Some(unwrap_or(rq.after_request, Request_default)),
                      !.response = Some(ResponseOf(result))]
    /\ UNCHANGED <<total_requests, bytes_received, bytes_sent>>
    /\ UNCHANGED <<cfg, handler_calls, served>>
    /\ UNCHANGED serverFrame

\* Variant of AfterOutcome: a Stop replaces the response and the later after
\* stages still run
AfterOutcome_StopGoesOn(stage, next_pc, o) ==
    CASE o.kind \in {"continue", "stop"} ->
           /\ rq' = [rq EXCEPT
                       !.pc = next_pc,
                       !.trace = Append(@, stage),
                       !.stop = IF o.kind = "stop"
                                THEN Some([stage |-> stage, response |-> o.response])
                                ELSE @,
                       !.response = IF o.kind = "stop" THEN Some(o.response)
                                    ELSE IF o.mutate THEN Some(MutateResponse(Unwrap(@)))
                                    ELSE @]
           /\ UNCHANGED <<bytes_sent, total_errors>>
      [] o.kind = "fail" ->
           LET error_response == Response_error(o.status, o.message)
           IN /\ total_errors' = inc_errors(total_errors)
              /\ rq' = Returned([rq EXCEPT
                                   !.trace = Append(@, stage),
                                   !.fail = Some([stage |-> stage, status |-> o.status,
                                                  message |-> o.message])],
                                error_response)
              /\ bytes_sent' = add_bytes_sent(bytes_sent,
                                              build_hyper_bytes_sent(error_response))

\* The match on an after-middleware result
AfterOutcome(stage, next_pc, o) ==
    CASE o.kind = "continue" ->
           /\ rq' = [rq EXCEPT
                       !.pc = next_pc,
                       !.trace = Append(@, stage),
                       !.response = IF o.mutate THEN Some(MutateResponse(Unwrap(@))) ELSE @]
           /\ UNCHANGED <<bytes_sent, total_errors>>
      [] o.kind = "stop" ->
           /\ rq' = Returned([rq EXCEPT
                                !.trace = Append(@, stage),
                                !.stop = Some([stage |-> stage, response |-> o.response])],
                             o.response)
           /\ bytes_sent' = add_bytes_sent(bytes_sent, build_hyper_bytes_sent(o.response))
           /\ UNCHANGED total_errors
      [] o.kind = "fail" ->
           LET error_response == Response_error(o.status, o.message)
           IN /\ total_errors' = inc_errors(total_errors)
              /\ rq' = Returned([rq EXCEPT
                                   !.trace = Append(@, stage),
                                   !.fail = Some([stage |-> stage, status |-> o.status,
                                                  message |-> o.message])],
                                error_response)
              /\ bytes_sent' = add_bytes_sent(bytes_sent,
                                              build_hyper_bytes_sent(error_response))

\* if !middleware.is_async_empty() { middleware.execute_after_async(..).await }
AfterAsyncStage ==
    /\ rq.pc = "after_async"
    /\ IF cfg.mw_async
       THEN \E o \in MwOutcomes : AfterOutcome("after_async", "after_sync", o)
       ELSE SkipTo("after_sync")
    /\ UNCHANGED <<total_requests, bytes_received, cfg, handler_calls, served>>
    /\ UNCHANGED serverFrame

\* if !middleware.is_empty() { middleware.execute_after(&request, &mut response) }
AfterSyncStage ==
    /\ rq.pc = "after_sync"
    /\ IF cfg.mw_sync
       THEN \E o \in MwOutcomes : AfterOutcome("after_sync", "prom_after", o)
       ELSE SkipTo("prom_after")
    /\ UNCHANGED <<total_requests, bytes_received, cfg, handler_calls, served>>
    /\ UNCHANGED serverFrame

\* Variant of PromAfterStage: the hook's failure is treated as a middleware's
PromAfterStage_FailurePropagates ==
    /\ rq.pc = "prom_after"
    /\ cfg.readers > 0
    /\ \E o \in MwOutcomes :
         LET response == IF cfg.prometheus /\ o.kind = "fail"
                         THEN Response_error(o.status, o.message)
                         ELSE IF cfg.prometheus /\ o.mutate
                         THEN MutateResponse(Unwrap(rq.response))
                         ELSE Unwrap(rq.response)
         IN /\ cfg.prometheus \/ o = Continue(FALSE)
            /\ rq' = Returned([rq EXCEPT
                                 !.response = Some(response),
                                 !.hook_after = IF cfg.prometheus THEN o.kind ELSE "none",
                                 !.trace = IF cfg.prometheus
                                           THEN Append(@, "prom_after") ELSE @],
                              response)
            /\ bytes_sent' = add_bytes_sent(bytes_sent, build_hyper_bytes_sent(response))
            /\ total_errors' = IF cfg.prometheus /\ o.kind = "fail"
                               THEN inc_errors(total_errors) ELSE total_errors
    /\ cfg' = drop_prom_guard(cfg)
    /\ UNCHANGED <<total_requests, bytes_received>>
    /\ UNCHANGED <<handler_calls, served>>
    /\ UNCHANGED serverFrame

\* prometheus.read(): if Some(p), let _ = p.after(&request, &mut response);
\* then build_hyper_response(&response, metrics)
PromAfterStage ==
    /\ rq.pc = "prom_after"
    /\ cfg.readers > 0
    /\ \E o \in MwOutcomes :
         LET response == IF cfg.prometheus /\ o.mutate
                         THEN MutateResponse(Unwrap(rq.response))
                         ELSE Unwrap(rq.response)
         IN /\ cfg.prometheus \/ o = Continue(FALSE)
            /\ rq' = Returned([rq EXCEPT
                                 !.response = Some(response),
                                 !.hook_after = IF cfg.prometheus THEN o.kind ELSE "none",
                                 !.trace = IF cfg.prometheus
                                           THEN Append(@, "prom_after") ELSE @],
                              response)
            /\ bytes_sent' = add_bytes_sent(bytes_sent, build_hyper_bytes_sent(response))
    /\ cfg' = drop_prom_guard(cfg)
    /\ UNCHANGED <<total_requests, bytes_received, total_errors>>
    /\ UNCHANGED <<handler_calls, served>>
    /\ UNCHANGED serverFrame

\* Another thread writes the hook slot: *prometheus.write() = Some(..) / None;
\* the write lock is granted only while no read guard is held
SetPrometheus ==
    /\ cfg.changes < MaxCfgChanges
    /\ cfg.readers = 0
    /\ cfg' = [cfg EXCEPT !.prometheus = ~@, !.changes = @ + 1]
    /\ UNCHANGED <<metricsVars, rq, handler_calls, served>>
    /\ UNCHANGED <<coordVars, runVars, callVars, obsVars, libVars>>

\* Another thread registers a guard: has_guards() turns true
AddGuard ==
    /\ cfg.changes < MaxCfgChanges
    /\ ~cfg.guards
    /\ cfg' = [cfg EXCEPT !.guards = TRUE, !.changes = @ + 1]
    /\ UNCHANGED <<metricsVars, rq, handler_calls, served>>
    /\ UNCHANGED <<coordVars, runVars, callVars, obsVars, libVars>>

\* ------------------------------------------------------------------------
\* The query block of handle_request applied to a query string on its own
\* ------------------------------------------------------------------------
\* The pieces query strings are made of: plain bytes, the separators, '+',
\* an escape that decodes to a space and one that decodes to a byte that is
\* not UTF-8
QueryTokens ==
    { <<"a">>, <<"b">>, <<"=">>, <<"&">>, <<"+">>, <<"%", "2", "0">>, <<"%", "F", "F">> }

RECURSIVE TokenStrings(_)
TokenStrings(n) ==
    IF n = 0
    THEN {<<>>}
    ELSE LET shorter == TokenStrings(n - 1)
         IN shorter \cup {s \o t : s \in shorter, t \in QueryTokens}

QueryInputs ==
    TokenStrings(MaxTokens)
        \cup {Chars("a=1&b=two+words"), Chars("a%20b=%FF&&c"), <<"a", "&", "a", "=", "b">>}

\* uri.query().unwrap_or("") and the parse of it
ParseQueryStep ==
    /\ qparse.pc = "idle"
    /\ qparse' = [qparse EXCEPT !.pc = "done", !.out = ParseQuery(qparse.input)]
    /\ UNCHANGED <<metricsVars, coordVars, runVars, callVars, obsVars, reqVars, mt, es, esc, sg, sgc, mc, gr, grc, rb, lt, mp, rd>>

\* ------------------------------------------------------------------------
\* Threads sharing one ServerMetrics: each call is one atomic read-modify-
\* write, and snapshot() loads the counters one after another
\* ------------------------------------------------------------------------
metricsFrame ==
    <<bytes_received, bytes_sent, total_errors, latencies,
      coordVars, runVars, callVars, obsVars, reqVars, qparse, es, esc, sg, sgc, mc, gr, grc, rb, lt, mp, rd>>

\* A call made while a snapshot is being taken, or after it, is not in it
NotedCall(m) == [m EXCEPT !.snap_clean = (m.snap_pc = "idle")]

CallIncRequests ==
    /\ mt.inc_requests < MaxMetricCalls
    /\ total_requests' = inc_requests(total_requests)
    /\ mt' = [NotedCall(mt) EXCEPT !.inc_requests = @ + 1]
    /\ UNCHANGED <<active_connections, metricsFrame>>

CallIncConnections ==
    /\ mt.inc_connections < MaxMetricCalls
    /\ active_connections' = inc_connections(active_connections)
    /\ mt' = [NotedCall(mt) EXCEPT !.inc_connections = @ + 1]
    /\ UNCHANGED <<total_requests, metricsFrame>>

CallDecConnections ==
    /\ mt.dec_connections < MaxMetricCalls
    /\ active_connections' = dec_connections(active_connections)
    /\ mt' = [NotedCall(mt) EXCEPT !.dec_connections = @ + 1]
    /\ UNCHANGED <<total_requests, metricsFrame>>

\* snapshot(): total_requests.load(), then active_connections.load()
SnapshotLoadRequests ==
    /\ mt.snap_pc \in {"idle", "done"}
    /\ mt' = [mt EXCEPT !.snap_pc = "loading", !.snap_clean = TRUE,
                        !.snap = [total_requests |-> total_requests,
                                  active_connections |-> 0]]
    /\ UNCHANGED <<total_requests, active_connections, metricsFrame>>

SnapshotLoadConnections ==
    /\ mt.snap_pc = "loading"
    /\ mt' = [mt EXCEPT !.snap_pc = "done",
                        !.snap = [@ EXCEPT !.active_connections = active_connections]]
    /\ UNCHANGED <<total_requests, active_connections, metricsFrame>>

\* ------------------------------------------------------------------------
\* InMemoryEventStore (middleware/eventsourcing.rs)
\* ------------------------------------------------------------------------
AggregateIds == {"A", "B"}
Writers == {"w1", "w2"}

\* EventSourcingConfig::default()
DefaultStoreConfig ==
    [enable_snapshots |-> TRUE, snapshot_interval |-> 100,
     max_events_per_aggregate |-> 10000]

\* The configurations a store is built with
StoreConfigs ==
    {[DefaultStoreConfig EXCEPT !.enable_snapshots = c[1], !.snapshot_interval = c[2],
                                !.max_events_per_aggregate = MaxLog] :
        c \in {<<FALSE, 1>>, <<TRUE, 0>>, <<TRUE, 1>>, <<TRUE, 2>>}}
      \cup {[DefaultStoreConfig EXCEPT !.enable_snapshots = FALSE,
                                       !.max_events_per_aggregate = MaxLog + 1]}

\* Event: the fields the store reads (version, data); the version is the
\* caller's, Event::new takes any u64
StoredEvent(version, data) == [version |-> version, data |-> data]
EventData == {JNull, JObj(("k" :> JNum(1)))}
EventsTried == {StoredEvent(v, d) : v \in 0..MaxVersion, d \in EventData}

\* The event slices handed to append_events: none, every single event, and
\* pairs in rising, falling and equal version order
EventBatches ==
    {<<>>} \cup {<<e>> : e \in EventsTried}
      \cup {<<StoredEvent(1, JObj(("k" :> JNum(1)))), StoredEvent(2, JNull)>>,
            <<StoredEvent(2, JNull), StoredEvent(1, JObj(("k" :> JNum(1))))>>,
            <<StoredEvent(1, JNull), StoredEvent(1, JNull)>>,
            <<StoredEvent(1, JNull), StoredEvent(0, JNull)>>}

\* InMemoryEventStore::with_config
NewStore(config) ==
    [events |-> EmptyMap, snapshots |-> EmptyMap,
     events_appended |-> 0, snapshots_created |-> 0, config |-> config]

\* Result<(), EventSourcingError> of a call, NoResult while none has returned
NoResult == [kind |-> "none", expected |-> 0, actual |-> 0]
OkResult == [kind |-> "Ok", expected |-> 0, actual |-> 0]
ConcurrencyConflict(expected, actual) ==
    [kind |-> "ConcurrencyConflict", expected |-> expected, actual |-> actual]
StoreError == [kind |-> "StoreError", expected |-> 0, actual |-> 0]
IsErr(r) == r.kind \in {"ConcurrencyConflict", "StoreError"}

IdleWriters ==
    [pc |-> [t \in Writers |-> "idle"],
     pending |-> [t \in Writers |-> None],
     arg |-> [t \in Writers |-> [aggregate_id |-> "A", events |-> <<>>,
                                  expected_version |-> 0]],
     result |-> [t \in Writers |-> NoResult],
     calls |-> [t \in Writers |-> 0]]

\* aggregate_events.last().map(|e| e.version).unwrap_or(0)
last_version(aggregate_events) ==
    IF Len(aggregate_events) = 0
    THEN 0
    ELSE aggregate_events[Len(aggregate_events)].version

\* store.entry(aggregate_id).or_insert_with(Vec::new)
or_insert_empty(store, aggregate_id) ==
    IF aggregate_id \in DOMAIN store THEN store ELSE store @@ (aggregate_id :> <<>>)

\* HashMap::insert
MapInsert(map, key, value) ==
    [k \in DOMAIN map \cup {key} |-> IF k = key THEN value ELSE map[k]]

\* The state put in an auto-snapshot: the entries of every event's data
\* object, later events over earlier ones; data that is no object adds nothing
RECURSIVE snapshot_state_map(_)
snapshot_state_map(aggregate_events) ==
    IF Len(aggregate_events) = 0
    THEN EmptyMap
    ELSE LET before == snapshot_state_map(SubSeq(aggregate_events, 1, Len(aggregate_events) - 1))
             event_map == as_object(aggregate_events[Len(aggregate_events)].data)
         IN IF IsSome(event_map)
            THEN [k \in DOMAIN before \cup DOMAIN Unwrap(event_map) |->
                    IF k \in DOMAIN Unwrap(event_map) THEN Unwrap(event_map)[k] ELSE before[k]]
            ELSE before

\* The auto-snapshot condition after the events were pushed
SnapshotDue(config, new_version) ==
    /\ config.enable_snapshots
    /\ config.snapshot_interval > 0
    /\ new_version > 0
    /\ new_version % config.snapshot_interval = 0

\* Variant of VersionConflict: an aggregate with no event stored accepts any
\* expected_version
VersionConflict_UnlessEmpty(aggregate_events, expected_version) ==
    /\ Len(aggregate_events) > 0
    /\ last_version(aggregate_events) # expected_version

\* current_version != expected_version
VersionConflict(aggregate_events, expected_version) ==
    last_version(aggregate_events) # expected_version

storeFrame ==
    <<metricsVars, coordVars, runVars, callVars, obsVars, reqVars, qparse, mt, sg, sgc, mc, gr, grc, rb, lt, mp, rd>>

TotalAppendCalls == esc.calls["w1"] + esc.calls["w2"]

\* append_events up to the release of the events lock: the entry is taken
\* (and made) first, then the version check, the size check, the pushes and
\* the building of the snapshot, all under the write lock
AppendEvents(t, aggregate_id, events, expected_version) ==
    /\ esc.pc[t] = "idle"
    /\ TotalAppendCalls < MaxAppends
    /\ LET store == or_insert_empty(es.events, aggregate_id)
           aggregate_events == store[aggregate_id]
           current_version == last_version(aggregate_events)
           called == [esc EXCEPT !.calls[t] = @ + 1,
                                 !.arg[t] = [aggregate_id |-> aggregate_id,
                                             events |-> events,
                                             expected_version |-> expected_version]]
           pushed == aggregate_events \o events
           new_version == last_version(pushed)
       IN IF VersionConflict(aggregate_events, expected_version)
          THEN /\ es' = [es EXCEPT !.events = store]
               /\ esc' = [called EXCEPT
                            !.result[t] = ConcurrencyConflict(expected_version, current_version)]
          ELSE IF Len(aggregate_events) + Len(events) > es.config.max_events_per_aggregate
          THEN /\ es' = [es EXCEPT !.events = store]
               /\ esc' = [called EXCEPT !.result[t] = StoreError]
          ELSE /\ es' = [es EXCEPT !.events = [store EXCEPT ![aggregate_id] = pushed],
                                   !.events_appended = @ + Len(events)]
               /\ IF SnapshotDue(es.config, new_version)
                  THEN esc' = [called EXCEPT
                                 !.pc[t] = "snapshot",
                                 !.result[t] = NoResult,
                                 !.pending[t] =
                                    Some([aggregate_id |-> aggregate_id,
                                          version |-> new_version,
                                          state |-> JObj(snapshot_state_map(pushed))])]
                  ELSE esc' = [called EXCEPT !.result[t] = OkResult]
    /\ UNCHANGED storeFrame

\* append_events after drop(store): the snapshot is put in the snapshots
\* map under that map's own lock, the counter is bumped and Ok(()) returned
AppendSnapshotInsert(t) ==
    /\ esc.pc[t] = "snapshot"
    /\ LET snapshot == Unwrap(esc.pending[t])
       IN es' = [es EXCEPT
                   !.snapshots = MapInsert(@, snapshot.aggregate_id, snapshot),
                   !.snapshots_created = @ + 1]
    /\ esc' = [esc EXCEPT !.pc[t] = "idle", !.pending[t] = None,
                          !.result[t] = OkResult]
    /\ UNCHANGED storeFrame

\* ------------------------------------------------------------------------
\* SagaOrchestrator (middleware/saga.rs)
\* ------------------------------------------------------------------------
\* SagaDefinition: the name and the step names; a second definition under the
\* same name, one with a repeated step name and one with no step
SagaDefsTried ==
    { [name |-> "order", steps |-> <<"a", "b", "c">>],
      [name |-> "order", steps |-> <<"a", "a">>],
      [name |-> "empty", steps |-> <<>>] }
SagaNamesTried == {"order", "empty", "ghost"}
StepNamesTried == {"a", "b", "c", "zz"}

\* SagaOrchestrator::with_config and SagaMetrics::default
NewOrchestrator ==
    [sagas |-> EmptyMap, executions |-> EmptyMap, execution_counter |-> 0,
     total_executions |-> 0, completed |-> 0, failed |-> 0, compensated |-> 0,
     completed_count |-> 0]

\* format!("exec-{}-{}", saga_name, counter)
ExecutionId(saga_name, counter) == <<saga_name, counter>>

\* SagaStep::new
SagaStep_new(name) ==
    [name |-> name, status |-> "Pending", result |-> None, error |-> None]

\* SagaExecution::new
SagaExecution_new(id, saga_name, step_names) ==
    [id |-> id, saga_name |-> saga_name,
     steps |-> [i \in 1..Len(step_names) |-> SagaStep_new(step_names[i])],
     status |-> "Pending", completed_at |-> None]

\* SystemTime::now() as seconds: the value is not looked at
Now == "now"

\* steps.iter_mut().find(|s| s.name == step_name): the position of the first
\* step of that name, 0 when there is none
FindStep(steps, step_name) ==
    LET found == {i \in 1..Len(steps) : steps[i].name = step_name}
    IN IF found = {} THEN 0 ELSE CHOOSE i \in found : \A j \in found : i <= j

\* Variant of MarkCompensating: completed steps are left as they are
MarkCompensating_None(steps) == steps

\* for s in steps { if s.status == Completed { s.status = Compensating } }
MarkCompensating(steps) ==
    [i \in 1..Len(steps) |->
        IF steps[i].status = "Completed"
        THEN [steps[i] EXCEPT !.status = "Compensating"]
        ELSE steps[i]]

\* for s in steps.rev() { if s.status == Compensating { s.status = Compensated } }
MarkCompensated(steps) ==
    [i \in 1..Len(steps) |->
        IF steps[i].status = "Compensating"
        THEN [steps[i] EXCEPT !.status = "Compensated"]
        ELSE steps[i]]

all_compensated(steps) ==
    \A i \in 1..Len(steps) : steps[i].status \in {"Compensated", "Failed", "Pending"}

\* Variant of all_complete: one completed step is enough
all_complete_Any(steps) ==
    \E i \in 1..Len(steps) : steps[i].status = "Completed"

all_complete(steps) ==
    \A i \in 1..Len(steps) : steps[i].status = "Completed"

\* The body of complete_step once the execution and the step are found
complete_step(execution, i, result) ==
    LET steps == [execution.steps EXCEPT ![i] = [@ EXCEPT !.status = "Completed",
                                                          !.result = result]]
    IN IF all_complete(steps)
       THEN [execution EXCEPT !.steps = steps, !.status = "Completed",
                              !.completed_at = Some(Now)]
       ELSE [execution EXCEPT !.steps = steps]

\* The body of fail_step once the execution and the step are found
fail_step(execution, i, error) ==
    LET failed == [execution.steps EXCEPT ![i] = [@ EXCEPT !.status = "Failed",
                                                           !.error = Some(error)]]
        steps == MarkCompensated(MarkCompensating(failed))
    IN IF all_compensated(steps)
       THEN [execution EXCEPT !.steps = steps, !.status = "Compensated",
                              !.completed_at = Some(Now)]
       ELSE [execution EXCEPT !.steps = steps, !.status = "Compensating"]

\* What the call made last on the orchestrator returned, the position of a
\* start_execution under way, and the complete_step / fail_step calls made
NoSagaCall == [result |-> "none", start_pc |-> "idle", step_calls |-> 0]
SagaReturned(result) == [sgc EXCEPT !.result = result]

SagaUnused == sg = NewOrchestrator /\ sgc = NoSagaCall

sagaFrame ==
    <<metricsVars, coordVars, runVars, callVars, obsVars, reqVars, qparse, mt, es, esc, mc, gr, grc, rb, lt, mp, rd>>

\* register_saga
RegisterSaga(saga) ==
    /\ sg' = [sg EXCEPT !.sagas = MapInsert(@, saga.name, saga)]
    /\ UNCHANGED <<sgc, sagaFrame>>

\* start_execution up to the insert of the execution
StartExecution(saga_name) ==
    /\ sgc.start_pc = "idle"
    /\ sg.execution_counter < MaxExecutions
    /\ IF saga_name \notin DOMAIN sg.sagas
       THEN /\ sgc' = SagaReturned("SagaNotFound")
            /\ UNCHANGED sg
       ELSE LET execution_id == ExecutionId(saga_name, sg.execution_counter)
                execution == [SagaExecution_new(execution_id, saga_name,
                                                sg.sagas[saga_name].steps)
                                EXCEPT !.status = "Running"]
            IN /\ sg' = [sg EXCEPT !.execution_counter = @ + 1,
                                   !.executions = MapInsert(@, execution_id, execution)]
               /\ sgc' = [SagaReturned("Ok") EXCEPT !.start_pc = "record"]
    /\ UNCHANGED sagaFrame

\* start_execution: metrics.record_execution_started() and the return
StartExecutionRecord ==
    /\ sgc.start_pc = "record"
    /\ sg' = [sg EXCEPT !.total_executions = @ + 1]
    /\ sgc' = [sgc EXCEPT !.start_pc = "idle"]
    /\ UNCHANGED sagaFrame

\* complete_step, under the write lock of the executions
CompleteStep(execution_id, step_name, result) ==
    /\ sgc.step_calls < MaxStepCalls
    /\ LET called(r) == [SagaReturned(r) EXCEPT !.step_calls = @ + 1]
       IN IF execution_id \notin DOMAIN sg.executions
          THEN sgc' = called("ExecutionNotFound") /\ UNCHANGED sg
          ELSE LET execution == sg.executions[execution_id]
                   i == FindStep(execution.steps, step_name)
               IN IF i = 0
                  THEN sgc' = called("StepNotFound") /\ UNCHANGED sg
                  ELSE LET after == complete_step(execution, i, result)
                       IN /\ sg' = [sg EXCEPT
                                      !.executions[execution_id] = after,
                                      !.completed =
                                         IF all_complete(after.steps) THEN @ + 1 ELSE @,
                                      !.completed_count =
                                         IF all_complete(after.steps) THEN @ + 1 ELSE @]
                          /\ sgc' = called("Ok")
    /\ UNCHANGED sagaFrame

\* fail_step, under the write lock of the executions
FailStep(execution_id, step_name, error) ==
    /\ sgc.step_calls < MaxStepCalls
    /\ LET called(r) == [SagaReturned(r) EXCEPT !.step_calls = @ + 1]
       IN IF execution_id \notin DOMAIN sg.executions
          THEN sgc' = called("ExecutionNotFound") /\ UNCHANGED sg
          ELSE LET execution == sg.executions[execution_id]
                   i == FindStep(execution.steps, step_name)
               IN IF i = 0
                  THEN sgc' = called("StepNotFound") /\ UNCHANGED sg
                  ELSE LET after == fail_step(execution, i, error)
                       IN /\ sg' = [sg EXCEPT
                                      !.executions[execution_id] = after,
                                      !.compensated =
                                         IF after.status = "Compensated" THEN @ + 1 ELSE @,
                                      !.failed = @ + 1]
                          /\ sgc' = called("Ok")
    /\ UNCHANGED sagaFrame

\* ------------------------------------------------------------------------
\* MockConsumer (middleware/messaging.rs)
\* ------------------------------------------------------------------------
\* Topics of the messages and of the subscriptions; "t3" is never subscribed
TopicsTried == {"t1", "t2", "t3"}
TopicListsTried == {<<>>, <<"t1">>, <<"t2", "t1">>, <<"t2", "t2">>}
MessageIdsTried == {"msg-1", "msg-2"}

\* Message: the id and topic the caller gave it.  nth is not a field of the
\* program: it numbers the enqueue calls, to tell apart messages that are
\* equal in every field
QueuedMessage(id, topic, nth) == [id |-> id, topic |-> topic, nth |-> nth]

\* MockConsumer::new, with the record of what the polls returned
NewConsumer ==
    [subscriptions |-> <<>>, pending |-> <<>>,
     messages_received |-> 0, total_operations |-> 0, active_consumers |-> 0,
     enqueued |-> 0, polled |-> <<>>, returned |-> [n \in {} |-> 0]]

ConsumerUnused == mc = NewConsumer

\* subs.contains(&topic)
contains(subs, topic) == \E i \in 1..Len(subs) : subs[i] = topic

\* for topic in topics { if !subs.contains(topic) { subs.push(topic) } }
RECURSIVE subscribe_topics(_, _)
subscribe_topics(subs, topics) ==
    IF Len(topics) = 0
    THEN subs
    ELSE subscribe_topics(IF contains(subs, Head(topics)) THEN subs
                          ELSE Append(subs, Head(topics)),
                          Tail(topics))

\* pending.drain(..).partition(|msg| subscriptions.contains(&msg.topic)): .0
partition_matching(pending, subscriptions) ==
    LET subscribed(msg) == contains(subscriptions, msg.topic)
    IN SelectSeq(pending, subscribed)

\* Variant of partition_remaining: the pending queue is left as it was
partition_remaining_All(pending, subscriptions) == pending

\* pending.drain(..).partition(|msg| subscriptions.contains(&msg.topic)): .1
partition_remaining(pending, subscriptions) ==
    LET unsubscribed(msg) == ~contains(subscriptions, msg.topic)
    IN SelectSeq(pending, unsubscribed)

consumerFrame ==
    <<metricsVars, coordVars, runVars, callVars, obsVars, reqVars,
      qparse, mt, es, esc, sg, sgc, gr, grc, rb, lt, mp, rd>>

\* enqueue
Enqueue(id, topic) ==
    /\ mc.enqueued < MaxEnqueued
    /\ mc' = [mc EXCEPT
                !.pending = Append(@, QueuedMessage(id, topic, mc.enqueued + 1)),
                !.enqueued = @ + 1,
                !.returned = @ @@ ((mc.enqueued + 1) :> 0)]
    /\ UNCHANGED consumerFrame

\* subscribe
Subscribe(topics) ==
    /\ LET subs == subscribe_topics(mc.subscriptions, topics)
       IN mc' = [mc EXCEPT !.subscriptions = subs, !.active_consumers = Len(subs)]
    /\ UNCHANGED consumerFrame

\* poll, under the write lock of pending and the read lock of subscriptions
Poll ==
    /\ LET matching == partition_matching(mc.pending, mc.subscriptions)
           remaining == partition_remaining(mc.pending, mc.subscriptions)
       IN mc' = [mc EXCEPT
                   !.pending = remaining,
                   !.messages_received = @ + Len(matching),
                   !.total_operations = @ + Len(matching),
                   !.polled = matching,
                   !.returned = [n \in DOMAIN @ |->
                                   @[n] + Cardinality({i \in 1..Len(matching) :
                                                          matching[i].nth = n})]]
    /\ UNCHANGED consumerFrame

\* ------------------------------------------------------------------------
\* GrpcServer (middleware/grpc.rs)
\* ------------------------------------------------------------------------
GrpcCallers == {"g1", "g2"}

\* GrpcServiceDef: the name and the method names
GrpcServicesTried == { [name |-> "Greeter", methods |-> <<"SayHello">>] }

\* GrpcRequest: service, method and the length of the payload; the server
\* built with max_message_size 1
GrpcRequestsTried ==
    [service : {"Greeter", "Nobody"}, method : {"SayHello", "Other"},
     payload_len : {0, 2}]
GrpcConfigTried == [max_message_size |-> 1]

\* GrpcServer::new and GrpcStats::default
NewGrpcServer ==
    [config |-> GrpcConfigTried, services |-> EmptyMap,
     stats |-> [total_requests |-> 0, active_streams |-> 0, total_errors |-> 0]]

\* GrpcError::code
GrpcErrorCode(err) ==
    CASE err = "InvalidMessage" -> 3
      [] err = "ServiceNotFound" -> 5
      [] err = "MethodNotFound" -> 12

\* GrpcResponse::ok / GrpcResponse::error: the status code and the payload
GrpcResponse_ok(payload) == [code |-> 0, payload |-> payload]
GrpcResponse_error(code) == [code |-> code, payload |-> <<>>]
GrpcResponse_is_ok(response) == response.code = 0

\* resolve_method: Ok, or the error
resolve_method(services, service_name, method_name) ==
    IF service_name \notin DOMAIN services
    THEN "ServiceNotFound"
    ELSE IF \E i \in 1..Len(services[service_name].methods) :
               services[service_name].methods[i] = method_name
         THEN "Ok"
         ELSE "MethodNotFound"

\* Variant of saturating_sub: nothing is subtracted
saturating_sub_Keep(n, k) == n

\* usize::saturating_sub
saturating_sub(n, k) == IF n >= k THEN n - k ELSE 0

\* The callers of handle_request: position, request, active_streams read
\* just before the call, whether no other call was in progress during it,
\* the response returned last; and the calls made, the calls returned and
\* the responses returned that were not OK
IdleGrpcCallers ==
    [pc |-> [t \in GrpcCallers |-> "idle"],
     request |-> [t \in GrpcCallers |->
                    [service |-> "", method |-> "", payload_len |-> 0]],
     active_before |-> [t \in GrpcCallers |-> 0],
     alone |-> [t \in GrpcCallers |-> TRUE],
     response |-> [t \in GrpcCallers |-> None],
     calls |-> 0, returned |-> 0, not_ok |-> 0]

GrpcUnused == gr = NewGrpcServer /\ grc = IdleGrpcCallers

GrpcInProgress == {t \in GrpcCallers : grc.pc[t] = "entered"}

grpcFrame ==
    <<metricsVars, coordVars, runVars, callVars, obsVars, reqVars,
      qparse, mt, es, esc, sg, sgc, mc, rb, lt, mp, rd>>

\* register_service
RegisterService(service_def) ==
    /\ gr' = [gr EXCEPT !.services = MapInsert(@, service_def.name, service_def)]
    /\ UNCHANGED <<grc, grpcFrame>>

\* handle_request: the first stats block
GrpcEnter(t, request) ==
    /\ grc.pc[t] = "idle"
    /\ grc.calls < MaxGrpcCalls
    /\ gr' = [gr EXCEPT !.stats.total_requests = @ + 1,
                        !.stats.active_streams = @ + 1]
    /\ grc' = [grc EXCEPT !.pc[t] = "entered", !.request[t] = request,
                          !.active_before[t] = gr.stats.active_streams,
                          !.alone = [u \in GrpcCallers |->
                                       IF u = t THEN GrpcInProgress = {}
                                       ELSE IF u \in GrpcInProgress THEN FALSE
                                       ELSE @[u]],
                          !.response[t] = None, !.calls = @ + 1]
    /\ UNCHANGED grpcFrame

\* handle_request: the size check, resolve_method, the closing stats block
\* and the return
GrpcFinish(t) ==
    /\ grc.pc[t] = "entered"
    /\ LET request == grc.request[t]
           result == resolve_method(gr.services, request.service, request.method)
           response ==
              IF request.payload_len > gr.config.max_message_size
              THEN GrpcResponse_error(GrpcErrorCode("InvalidMessage"))
              ELSE IF result = "Ok"
              THEN GrpcResponse_ok(<<>>)
              ELSE GrpcResponse_error(GrpcErrorCode(result))
       IN /\ gr' = [gr EXCEPT
                      !.stats.total_errors =
                         IF GrpcResponse_is_ok(response) THEN @ ELSE @ + 1,
                      !.stats.active_streams = saturating_sub(@, 1)]
          /\ grc' = [grc EXCEPT !.pc[t] = "idle", !.response[t] = Some(response),
                                !.returned = @ + 1,
                                !.not_ok = IF GrpcResponse_is_ok(response)
                                           THEN @ ELSE @ + 1]
    /\ UNCHANGED grpcFrame

\* ------------------------------------------------------------------------
\* The match on the handler's result (handle_request) applied on its own
\* ------------------------------------------------------------------------
\* Objects a handler may return: with or without the reserved marker, with a
\* status that fits u16, one that does not, or one that is no number, with
\* and without body and headers, and headers whose values are not all strings
MarkerChoices ==
    { EmptyMap, ("__cello_response__" :> JBool(TRUE)), ("__cello_response__" :> JBool(FALSE)),
      ("__cello_response__" :> JStr(<<"t", "r", "u", "e">>)) }
StatusChoices ==
    { EmptyMap, ("status" :> JNum(201)), ("status" :> JNum(65736)),
      ("status" :> JStr(<<"4", "0", "4">>)) }
BodyChoices == { EmptyMap, ("body" :> JStr(Chars("hi"))), ("body" :> JNum(7)) }
HeaderChoices ==
    { EmptyMap, ("headers" :> JObj(("X-H" :> JStr(Chars("v"))) @@ ("X-N" :> JNum(1)))),
      ("headers" :> JStr(Chars("v"))) }

ResultsTried ==
    { JsonValue(JObj(m @@ st @@ b @@ h)) :
        m \in MarkerChoices, st \in StatusChoices, b \in BodyChoices, h \in HeaderChoices }
      \cup { JsonValue(JNull), JsonValue(JNum(5)), JsonValue(JStr(Chars("hi"))),
             JsonBytes(Chars("{\"ok\":true}")) }

IdleBuilder == [pc |-> "idle", result |-> JsonBytes(<<>>), response |-> None]
BuilderUnused == rb = IdleBuilder

\* let mut response = match result { Ok(handler_result) => .. }
BuildGenericResponse ==
    /\ rb.pc = "idle"
    /\ rb' = [rb EXCEPT !.pc = "done", !.response = Some(ResponseOf(rb.result))]
    /\ UNCHANGED <<metricsVars, coordVars, runVars, callVars, obsVars, reqVars,
                   qparse, mt, es, esc, sg, sgc, mc, gr, grc, lt, mp, rd>>

\* ------------------------------------------------------------------------
\* Requests of concurrent connections, each counted by inc_requests when
\* handle_request begins and ended by metrics.record_latency (Server::run)
\* ------------------------------------------------------------------------
LatencyCallers == {"l1", "l2"}

\* The buffer after the samples numbered 1..n were pushed into an empty one
SamplesUpTo(n) == [i \in 1..n |-> i]

\* A server that handled n * 64 requests one after another
AfterSamples(n) ==
    [total_requests |-> n * (SampleMask + 1), latencies |-> SamplesUpTo(n)]
NearlyFull == LatencyCapacity - 1

IdleLatency ==
    [pc |-> [t \in LatencyCallers |-> "idle"], next |-> 1, stored |-> 0,
     started |-> 0, overlap |-> FALSE, evicted |-> FALSE]
LatencyUnused == lt = IdleLatency

latencyFrame ==
    <<active_connections, bytes_received, bytes_sent, total_errors,
      coordVars, runVars, callVars, obsVars, reqVars,
      qparse, mt, es, esc, sg, sgc, mc, gr, grc, rb, mp, rd>>

\* handle_request begins: metrics.inc_requests()
LatencyRequestStart(t) ==
    /\ lt.pc[t] = "idle"
    /\ lt.started < MaxLatencyRequests
    /\ total_requests' = inc_requests(total_requests)
    /\ lt' = [lt EXCEPT !.pc[t] = "in_request",
                        !.started = @ + 1,
                        !.overlap = @ \/ \E u \in LatencyCallers : lt.pc[u] # "idle"]
    /\ UNCHANGED <<latencies, latencyFrame>>

\* record_latency: the load of total_requests and the test of its low bits
LatencyLoad(t) ==
    /\ lt.pc[t] = "in_request"
    /\ lt' = [lt EXCEPT !.pc[t] = IF sample_due(total_requests) THEN "push" ELSE "idle"]
    /\ UNCHANGED <<total_requests, latencies, latencyFrame>>

\* record_latency: the block under the write lock
LatencyPush(t) ==
    /\ lt.pc[t] = "push"
    /\ latencies' = push_latency(latencies, lt.next)
    /\ lt' = [lt EXCEPT !.pc[t] = "idle", !.next = @ + 1, !.stored = @ + 1,
                        !.evicted = @ \/ Len(latencies) = LatencyCapacity]
    /\ UNCHANGED <<total_requests, latencyFrame>>

\* ------------------------------------------------------------------------
\* MockProducer (middleware/messaging.rs)
\* ------------------------------------------------------------------------
Producers == {"p1", "p2"}
BatchSizesTried == {0, 2}

\* format!("msg-{}", n)
MessageId(n) == <<"msg", n>>

\* Message: the fields the producer decides (id) and the caller's topic
SentMessage(id, topic) == [id |-> id, topic |-> topic]

\* MockProducer::new, with no thread inside send
NewProducer ==
    [messages |-> <<>>, messages_sent |-> 0, total_operations |-> 0,
     pc |-> [t \in Producers |-> "idle"],
     message |-> [t \in Producers |-> None],
     calls |-> 0]
ProducerUnused == mp = NewProducer

producerFrame ==
    <<metricsVars, coordVars, runVars, callVars, obsVars, reqVars,
      qparse, mt, es, esc, sg, sgc, mc, gr, grc, rb, lt, rd>>

\* send: the Message is built, its id from self.messages.read().len(); the
\* read guard is a temporary and is gone at the end of that expression
SendBuildMessage(t, topic) ==
    /\ mp.pc[t] = "idle"
    /\ mp.calls < MaxSends
    /\ mp' = [mp EXCEPT !.pc[t] = "push",
                        !.message[t] = Some(SentMessage(MessageId(Len(mp.messages)), topic)),
                        !.calls = @ + 1]
    /\ UNCHANGED producerFrame

\* send: self.messages.write().push(message)
SendPush(t) ==
    /\ mp.pc[t] = "push"
    /\ mp' = [mp EXCEPT !.pc[t] = "record",
                        !.messages = Append(@, Unwrap(mp.message[t])),
                        !.message[t] = None]
    /\ UNCHANGED producerFrame

\* send: self.stats.record_sent(); Ok(())
SendRecord(t) ==
    /\ mp.pc[t] = "record"
    /\ mp' = [mp EXCEPT !.pc[t] = "idle",
                        !.messages_sent = @ + 1,
                        !.total_operations = @ + 1]
    /\ UNCHANGED producerFrame

\* send_batch: under one write guard, ids from base_idx + i, record_sent for
\* each message pushed
SendBatch(t, topic, n) ==
    /\ mp.pc[t] = "idle"
    /\ mp.calls < MaxSends
    /\ LET base_idx == Len(mp.messages)
       IN mp' = [mp EXCEPT
                   !.messages = @ \o [i \in 1..n |-> SentMessage(MessageId(base_idx + i - 1), topic)],
                   !.messages_sent = @ + n,
                   !.total_operations = @ + n,
                   !.calls = @ + 1]
    /\ UNCHANGED producerFrame

\* ------------------------------------------------------------------------
\* MockRedisClient (middleware/redis.rs)
\* ------------------------------------------------------------------------
RedisKeys == {"k1", "k2"}
RedisField == "f"

\* RedisValue: the variants the read operations tell apart
RString(x) == [t |-> "string", v |-> x]
RMap(x) == [t |-> "map", v |-> x]
RArray(x) == [t |-> "array", v |-> x]
RedisValuesTried == {RString("a"), RMap("a"), RArray("a")}
TtlsTried == {None, Some(1)}
KeyListsTried == {<<"k1">>, <<"k1", "k2">>}

NoReply == [op |-> "none", keys |-> <<>>, value |-> <<>>]
Reply(op, keys, value) == [op |-> op, keys |-> keys, value |-> value]

\* MockRedisClient::new, at the clock's start
NewRedis ==
    [data |-> [k \in RedisKeys |-> None],
     ttls |-> [k \in RedisKeys |-> None],
     total_commands |-> 0, total_keys_set |-> 0, total_keys_get |-> 0,
     cache_hits |-> 0, cache_misses |-> 0,
     now |-> 0,
     plain |-> [k \in RedisKeys |-> FALSE],
     due |-> {},
     reply |-> NoReply,
     calls |-> 0]
RedisUnused == rd = NewRedis

redisFrame ==
    <<metricsVars, coordVars, runVars, callVars, obsVars, reqVars,
      qparse, mt, es, esc, sg, sgc, mc, gr, grc, rb, lt, mp>>

\* is_expired: Instant::now() > *expiry for a key that has an expiry
is_expired(r, key) ==
    IF IsSome(r.ttls[key]) THEN r.now > Unwrap(r.ttls[key]) ELSE FALSE

\* clean_expired: an expired key leaves data and ttls
clean_expired(r, key) ==
    IF is_expired(r, key)
    THEN [r EXCEPT !.data[key] = None, !.ttls[key] = None]
    ELSE r

\* The keys whose TTL has elapsed on the clock of r
Elapsed(r) == {k \in RedisKeys : is_expired(r, k)}

\* A call's bookkeeping: the reply it gave and the keys whose TTL had elapsed
\* when it was made
Replied(r, op, keys, value) ==
    [r EXCEPT !.reply = Reply(op, keys, value), !.due = Elapsed(rd), !.calls = @ + 1]

RedisCallAllowed == rd.calls < MaxRedisCalls

\* get
RedisGet(key) ==
    /\ RedisCallAllowed
    /\ LET cleaned == clean_expired(rd, key)
           result == cleaned.data[key]
           counted == [cleaned EXCEPT
                         !.total_keys_get = @ + 1,
                         !.cache_hits = IF IsSome(result) THEN @ + 1 ELSE @,
                         !.cache_misses = IF IsSome(result) THEN @ ELSE @ + 1,
                         !.total_commands = @ + 1]
       IN rd' = Replied(counted, "get", <<key>>, result)
    /\ UNCHANGED redisFrame

\* set: the value is inserted; the expiry is written only when a ttl is given
RedisSet(key, value, ttl) ==
    /\ RedisCallAllowed
    /\ LET stored == [rd EXCEPT
                        !.data[key] = Some(value),
                        !.ttls[key] = IF IsSome(ttl) THEN Some(rd.now + Unwrap(ttl)) ELSE @,
                        !.total_keys_set = @ + 1,
                        !.total_commands = @ + 1,
                        !.plain[key] = IsNone(ttl)]
       IN rd' = Replied(stored, "set", <<key>>, None)
    /\ UNCHANGED redisFrame

\* delete
RedisDelete(key) ==
    /\ RedisCallAllowed
    /\ LET removed == IsSome(rd.data[key])
           gone == [rd EXCEPT !.data[key] = None, !.ttls[key] = None,
                              !.total_commands = @ + 1,
                              !.plain[key] = FALSE]
       IN rd' = Replied(gone, "delete", <<key>>, Some(removed))
    /\ UNCHANGED redisFrame

\* exists
RedisExists(key) ==
    /\ RedisCallAllowed
    /\ LET cleaned == clean_expired(rd, key)
       IN rd' = Replied(cleaned, "exists", <<key>>, Some(IsSome(cleaned.data[key])))
    /\ UNCHANGED redisFrame

\* expire: a key that data holds gets the expiry now + ttl
RedisExpire(key, ttl) ==
    /\ RedisCallAllowed
    /\ IF IsSome(rd.data[key])
       THEN rd' = Replied([rd EXCEPT !.ttls[key] = Some(rd.now + ttl),
                                     !.plain[key] = FALSE],
                          "expire", <<key>>, Some(TRUE))
       ELSE rd' = Replied(rd, "expire", <<key>>, Some(FALSE))
    /\ UNCHANGED redisFrame

\* mget: data.get for each key, under the read guard of data
RedisMget(keys) ==
    /\ RedisCallAllowed
    /\ rd' = Replied(rd, "mget", keys, [i \in 1..Len(keys) |-> rd.data[keys[i]]])
    /\ UNCHANGED redisFrame

\* hget: the field of a Map value (the Map tried has the one field)
RedisHget(key, field) ==
    /\ RedisCallAllowed
    /\ LET found == rd.data[key]
           result == IF IsSome(found) /\ Unwrap(found).t = "map" /\ field = RedisField
                     THEN Some(RString(Unwrap(found).v))
                     ELSE None
       IN rd' = Replied(rd, "hget", <<key>>, result)
    /\ UNCHANGED redisFrame

\* hgetall: the Map's entries, or no entries
RedisHgetall(key) ==
    /\ RedisCallAllowed
    /\ LET found == rd.data[key]
           result == IF IsSome(found) /\ Unwrap(found).t = "map"
                     THEN <<<<RedisField, RString(Unwrap(found).v)>>>>
                     ELSE <<>>
       IN rd' = Replied(rd, "hgetall", <<key>>, result)
    /\ UNCHANGED redisFrame

\* lrange(key, 0, -1): the elements of an Array value, or none
RedisLrange(key) ==
    /\ RedisCallAllowed
    /\ LET found == rd.data[key]
           result == IF IsSome(found) /\ Unwrap(found).t = "array"
                     THEN <<RString(Unwrap(found).v)>>
                     ELSE <<>>
       IN rd' = Replied(rd, "lrange", <<key>>, result)
    /\ UNCHANGED redisFrame

\* smembers: the elements of an Array value, or none
RedisSmembers(key) ==
    /\ RedisCallAllowed
    /\ LET found == rd.data[key]
           result == IF IsSome(found) /\ Unwrap(found).t = "array"
                     THEN <<RString(Unwrap(found).v)>>
                     ELSE <<>>
       IN rd' = Replied(rd, "smembers", <<key>>, result)
    /\ UNCHANGED redisFrame

\* Instant::now() moves on between two calls
RedisTimePasses ==
    /\ rd.now < MaxNow
    /\ rd' = [rd EXCEPT !.now = @ + 1]
    /\ UNCHANGED redisFrame

\* ------------------------------------------------------------------------
\* The running server
\* ------------------------------------------------------------------------
InitMetrics ==
    /\ total_requests = 0
    /\ active_connections = 0
    /\ bytes_received = 0
    /\ bytes_sent = 0
    /\ total_errors = 0
    /\ latencies = <<>>

InitServer ==
    /\ shutdown_initiated = FALSE
    /\ active_requests = 0
    /\ notify_tail = 0
    /\ rx_subscribed = FALSE
    /\ rx_pos = 0
    /\ main_pc = "new"
    /\ next_conn = 1
    /\ conn = [c \in ConnIds |-> "none"]
    /\ drain_elapsed = 0
    /\ cpc = [k \in Callers |-> IF k = "sigterm" THEN "unspawned" ELSE "idle"]
    /\ calls = [k \in Callers |-> 0]
    /\ clate = [k \in Threads |-> FALSE]
    /\ sd_transitions = 0
    /\ calls_done = 0
    /\ late_notifications = 0
    /\ rejected = 0
    /\ spawned = 0
    /\ decs = [c \in ConnIds |-> 0]

\* The components checked on their own, not in use
IdleQuery == [pc |-> "idle", input |-> <<>>, out |-> <<>>]
IdleMt == [inc_requests |-> 0, inc_connections |-> 0, dec_connections |-> 0,
           snap_pc |-> "idle", snap_clean |-> TRUE,
           snap |-> [total_requests |-> 0, active_connections |-> 0]]
InitLib ==
    /\ qparse = IdleQuery
    /\ mt = IdleMt
    /\ es = NewStore(DefaultStoreConfig)
    /\ esc = IdleWriters
    /\ SagaUnused
    /\ ConsumerUnused
    /\ GrpcUnused
    /\ BuilderUnused
    /\ LatencyUnused
    /\ ProducerUnused
    /\ RedisUnused

NoMiddleware == [mw_sync |-> FALSE, mw_async |-> FALSE, guards |-> FALSE,
                 prometheus |-> FALSE, changes |-> 0, readers |-> 0]

Init ==
    /\ InitMetrics
    /\ InitServer
    /\ InitLib
    /\ drain_timeout \in 0..MaxDrainTimeout
    /\ max_connections \in 1..MaxCeiling
    /\ rq = IdleRq
    /\ cfg = NoMiddleware
    /\ handler_calls = 0
    /\ served = 0

Next ==
    \/ \E k \in ApiCallers : ApiShutdownStore(k)
    \/ \E k \in ApiCallers : ApiShutdownSend(k)
    \/ RunStart
    \/ SigtermStore
    \/ SigtermSend
    \/ SelectCtrlC
    \/ CtrlCSend
    \/ SelectRecv
    \/ SelectAccept
    \/ AcceptLimit
    \/ AcceptSpawn
    \/ AfterLoop
    \/ DrainPoll
    \/ \E c \in ConnIds : ReqStart(c)
    \/ \E c \in ConnIds : ReqFinish(c)
    \/ \E c \in ConnIds : ReqPanic(c)
    \/ \E c \in ConnIds : ReqDropped(c)
    \/ \E c \in ConnIds : ConnClose(c)
    \/ \E c \in ConnIds : ConnCleanup(c)

Spec == Init /\ [][Next]_vars

\* A server that is constructed and not running, no request in hand
InitIdleServer ==
    /\ InitMetrics
    /\ InitServer
    /\ drain_timeout = 0
    /\ max_connections = 1
    /\ rq = IdleRq
    /\ cfg = NoMiddleware
    /\ handler_calls = 0
    /\ served = 0

\* The query parser on its own, over the query strings tried
InitQuery ==
    /\ InitIdleServer
    /\ mt = IdleMt
    /\ es = NewStore(DefaultStoreConfig)
    /\ esc = IdleWriters
    /\ SagaUnused
    /\ ConsumerUnused
    /\ GrpcUnused
    /\ BuilderUnused
    /\ LatencyUnused
    /\ ProducerUnused
    /\ RedisUnused
    /\ qparse \in {[IdleQuery EXCEPT !.input = s] : s \in QueryInputs}

NextQuery == ParseQueryStep

SpecQuery == InitQuery /\ [][NextQuery]_vars

\* A fresh ServerMetrics shared by concurrent callers
InitMetricsCalls ==
    /\ InitIdleServer
    /\ qparse = IdleQuery
    /\ mt = IdleMt
    /\ es = NewStore(DefaultStoreConfig)
    /\ esc = IdleWriters
    /\ SagaUnused
    /\ ConsumerUnused
    /\ GrpcUnused
    /\ BuilderUnused
    /\ LatencyUnused
    /\ ProducerUnused
    /\ RedisUnused

NextMetricsCalls ==
    \/ CallIncRequests
    \/ CallIncConnections
    \/ CallDecConnections
    \/ SnapshotLoadRequests
    \/ SnapshotLoadConnections

SpecMetrics == InitMetricsCalls /\ [][NextMetricsCalls]_vars

\* A fresh InMemoryEventStore shared by the writer threads
InitStore ==
    /\ InitIdleServer
    /\ qparse = IdleQuery
    /\ mt = IdleMt
    /\ es \in {NewStore(config) : config \in StoreConfigs}
    /\ esc = IdleWriters
    /\ SagaUnused
    /\ ConsumerUnused
    /\ GrpcUnused
    /\ BuilderUnused
    /\ LatencyUnused
    /\ ProducerUnused
    /\ RedisUnused

NextStore ==
    \/ \E t \in Writers, aggregate_id \in AggregateIds,
          events \in EventBatches, expected_version \in 0..MaxVersion :
            AppendEvents(t, aggregate_id, events, expected_version)
    \/ \E t \in Writers : AppendSnapshotInsert(t)

SpecStore == InitStore /\ [][NextStore]_vars

\* A fresh SagaOrchestrator and the calls made on it
InitSaga ==
    /\ InitIdleServer
    /\ qparse = IdleQuery
    /\ mt = IdleMt
    /\ es = NewStore(DefaultStoreConfig)
    /\ esc = IdleWriters
    /\ SagaUnused
    /\ ConsumerUnused
    /\ GrpcUnused
    /\ BuilderUnused
    /\ LatencyUnused
    /\ ProducerUnused
    /\ RedisUnused

NextSaga ==
    \/ \E saga \in SagaDefsTried : RegisterSaga(saga)
    \/ \E saga_name \in SagaNamesTried : StartExecution(saga_name)
    \/ StartExecutionRecord
    \/ \E saga_name \in SagaNamesTried, counter \in 0..(MaxExecutions - 1),
          step_name \in StepNamesTried :
            \/ CompleteStep(ExecutionId(saga_name, counter), step_name, Some(JNum(1)))
            \/ FailStep(ExecutionId(saga_name, counter), step_name, "boom")

SpecSaga == InitSaga /\ [][NextSaga]_vars

\* A fresh MockConsumer and the calls made on it
InitConsumer ==
    /\ InitIdleServer
    /\ qparse = IdleQuery
    /\ mt = IdleMt
    /\ es = NewStore(DefaultStoreConfig)
    /\ esc = IdleWriters
    /\ SagaUnused
    /\ ConsumerUnused
    /\ GrpcUnused
    /\ BuilderUnused
    /\ LatencyUnused
    /\ ProducerUnused
    /\ RedisUnused

NextConsumer ==
    \/ \E id \in MessageIdsTried, topic \in TopicsTried : Enqueue(id, topic)
    \/ \E topics \in TopicListsTried : Subscribe(topics)
    \/ Poll

SpecConsumer == InitConsumer /\ [][NextConsumer]_vars

\* A fresh GrpcServer and the threads calling handle_request on it
InitGrpc ==
    /\ InitIdleServer
    /\ qparse = IdleQuery
    /\ mt = IdleMt
    /\ es = NewStore(DefaultStoreConfig)
    /\ esc = IdleWriters
    /\ SagaUnused
    /\ ConsumerUnused
    /\ GrpcUnused
    /\ BuilderUnused
    /\ LatencyUnused
    /\ ProducerUnused
    /\ RedisUnused

NextGrpc ==
    \/ \E service_def \in GrpcServicesTried : RegisterService(service_def)
    \/ \E t \in GrpcCallers, request \in GrpcRequestsTried : GrpcEnter(t, request)
    \/ \E t \in GrpcCallers : GrpcFinish(t)

SpecGrpc == InitGrpc /\ [][NextGrpc]_vars

\* The generic response construction on its own, for each result tried
InitBuilder ==
    /\ InitIdleServer
    /\ qparse = IdleQuery
    /\ mt = IdleMt
    /\ es = NewStore(DefaultStoreConfig)
    /\ esc = IdleWriters
    /\ SagaUnused
    /\ ConsumerUnused
    /\ GrpcUnused
    /\ rb \in {[IdleBuilder EXCEPT !.result = r] : r \in ResultsTried}
    /\ LatencyUnused
    /\ ProducerUnused
    /\ RedisUnused

NextBuilder == BuildGenericResponse

SpecBuilder == InitBuilder /\ [][NextBuilder]_vars

\* A new server, or one that has sampled 999 of the requests it handled
InitLatency ==
    /\ \E n \in {0, NearlyFull} :
         /\ total_requests = AfterSamples(n).total_requests
         /\ latencies = AfterSamples(n).latencies
         /\ lt = [IdleLatency EXCEPT !.next = n + 1, !.stored = n]
    /\ active_connections = 0
    /\ bytes_received = 0
    /\ bytes_sent = 0
    /\ total_errors = 0
    /\ InitServer
    /\ drain_timeout = 0
    /\ max_connections = 1
    /\ rq = IdleRq
    /\ cfg = NoMiddleware
    /\ handler_calls = 0
    /\ served = 0
    /\ qparse = IdleQuery
    /\ mt = IdleMt
    /\ es = NewStore(DefaultStoreConfig)
    /\ esc = IdleWriters
    /\ SagaUnused
    /\ ConsumerUnused
    /\ GrpcUnused
    /\ BuilderUnused
    /\ ProducerUnused
    /\ RedisUnused

NextLatency ==
    \/ \E t \in LatencyCallers : LatencyRequestStart(t)
    \/ \E t \in LatencyCallers : LatencyLoad(t)
    \/ \E t \in LatencyCallers : LatencyPush(t)

SpecLatency == InitLatency /\ [][NextLatency]_vars

\* A new MockProducer shared by the sending threads
InitProducer ==
    /\ InitIdleServer
    /\ qparse = IdleQuery
    /\ mt = IdleMt
    /\ es = NewStore(DefaultStoreConfig)
    /\ esc = IdleWriters
    /\ SagaUnused
    /\ ConsumerUnused
    /\ GrpcUnused
    /\ BuilderUnused
    /\ LatencyUnused
    /\ mp = NewProducer
    /\ RedisUnused

NextProducer ==
    \/ \E t \in Producers, topic \in TopicsTried : SendBuildMessage(t, topic)
    \/ \E t \in Producers : SendPush(t)
    \/ \E t \in Producers : SendRecord(t)
    \/ \E t \in Producers, topic \in TopicsTried, n \in BatchSizesTried : SendBatch(t, topic, n)

SpecProducer == InitProducer /\ [][NextProducer]_vars

\* A new MockRedisClient used by one caller while time passes
InitRedis ==
    /\ InitIdleServer
    /\ qparse = IdleQuery
    /\ mt = IdleMt
    /\ es = NewStore(DefaultStoreConfig)
    /\ esc = IdleWriters
    /\ SagaUnused
    /\ ConsumerUnused
    /\ GrpcUnused
    /\ BuilderUnused
    /\ LatencyUnused
    /\ ProducerUnused
    /\ rd = NewRedis

NextRedis ==
    \/ \E key \in RedisKeys : RedisGet(key)
    \/ \E key \in RedisKeys, value \in RedisValuesTried, ttl \in TtlsTried : RedisSet(key, value, ttl)
    \/ \E key \in RedisKeys : RedisDelete(key)
    \/ \E key \in RedisKeys : RedisExists(key)
    \/ \E key \in RedisKeys : RedisExpire(key, 1)
    \/ \E keys \in KeyListsTried : RedisMget(keys)
    \/ \E key \in RedisKeys : RedisHget(key, RedisField)
    \/ \E key \in RedisKeys : RedisHgetall(key)
    \/ \E key \in RedisKeys : RedisLrange(key)
    \/ \E key \in RedisKeys : RedisSmembers(key)
    \/ RedisTimePasses

SpecRedis == InitRedis /\ [][NextRedis]_vars

\* The running server under the scheduling the runtime gives: a task that can
\* take its next step takes it (a queued notification is received, a send
\* that was begun completes, an accepted stream is dealt with, the drain loop
\* is polled as time advances).  Nothing is assumed of the environment:
\* connections, requests and signals may never arrive, a handler may never
\* return.
FairSpec ==
    /\ Spec
    /\ WF_vars(SelectRecv)
    /\ WF_vars(CtrlCSend)
    /\ WF_vars(SigtermSend)
    /\ \A k \in ApiCallers : WF_vars(ApiShutdownSend(k))
    /\ WF_vars(AcceptLimit)
    /\ WF_vars(AcceptSpawn)
    /\ WF_vars(AfterLoop)
    /\ WF_vars(DrainPoll)

\* ------------------------------------------------------------------------
\* handle_request on its own: one request, from arrival to the response
\* ------------------------------------------------------------------------
InitReq ==
    /\ InitMetrics
    /\ InitServer
    /\ InitLib
    /\ drain_timeout = 0
    /\ max_connections = 1
    /\ rq = IdleRq
    /\ cfg \in [mw_sync : BOOLEAN, mw_async : BOOLEAN, guards : BOOLEAN,
                prometheus : BOOLEAN, changes : {0}, readers : {0}]
    /\ handler_calls = 0
    /\ served = 0

NextReq ==
    \/ RouteStage
    \/ BodyStage
    \/ MwBeforeStage
    \/ MwBeforeAsyncStage
    \/ PromBeforeStage
    \/ GuardsStage
    \/ InvokeHandler
    \/ HandlerReturns
    \/ FastPathCheck
    \/ BuildResponse
    \/ AfterAsyncStage
    \/ AfterSyncStage
    \/ PromAfterStage
    \/ ReadHookSlot
    \/ SetPrometheus
    \/ AddGuard

SpecReq == InitReq /\ [][NextReq]_vars

\* ========================================================================
\* Properties of handle_request (checked under SpecReq)
\* ========================================================================
ReqOut == Unwrap(rq.out)
ReqResult == Unwrap(rq.result)

\* C1: a request whose (method, path) matches no route is answered 404 at
\* once, with a body holding the method and the path: nothing is parsed, no
\* Request is built, bytes_received and total_errors are as before the
\* request, and no middleware, hook, guard or handler has run.
C1_RouteMissReturns404 ==
    (rq.pc # "idle" /\ IsNone(rq.route)) =>
        /\ rq.pc = "done"
        /\ ReqOut.status = 404
        /\ Contains(ReqOut.body, Chars(rq.method))
        /\ Contains(ReqOut.body, Chars(rq.path))
        /\ rq.trace = <<>>
        /\ DOMAIN rq.query = {}
        /\ DOMAIN rq.headers = {}
        /\ IsNone(rq.request)
        /\ IsNone(rq.handed)
        /\ bytes_received = rq.m0.bytes_received
        /\ total_errors = rq.m0.total_errors
        /\ handler_calls = rq.m0.handler_calls

\* C1 witness: GET /missing with a query, headers and a body on the wire,
\* on a server with middleware, hook and guards installed, was answered
C1_Witness ==
    /\ rq.pc = "done"
    /\ IsNone(rq.route)
    /\ rq.method = "GET" /\ rq.path = "/missing"
    /\ rq.wire_body # <<>> /\ rq.wire_query # <<>>
    /\ cfg.mw_sync /\ cfg.mw_async /\ cfg.guards /\ cfg.prometheus

\* C2: when the guard stage returns Stop(r), the response sent is r (status,
\* headers and body) and the handler was not invoked for that request.
C2_GuardStopSkipsHandler ==
    (rq.pc = "done" /\ IsSome(rq.stop) /\ Unwrap(rq.stop).stage = "guards") =>
        LET r == Unwrap(rq.stop).response
        IN /\ ReqOut.status = r.status
           /\ ReqOut.body = r.body
           /\ DOMAIN ReqOut.headers = {HeaderName(k) : k \in DOMAIN r.headers}
           /\ \A k \in DOMAIN r.headers : ReqOut.headers[HeaderName(k)] = r.headers[k]
           /\ handler_calls = rq.m0.handler_calls
           /\ IsNone(rq.result)
           /\ \A i \in 1..Len(rq.trace) : rq.trace[i] # "handler"

\* C2 witness: a matched request was stopped by the guards with the 403
C2_Witness ==
    /\ rq.pc = "done"
    /\ IsSome(rq.route)
    /\ IsSome(rq.stop) /\ Unwrap(rq.stop).stage = "guards"
    /\ ReqOut.status = 403

\* C3: when the handler reports an error e, the handler-result stage builds a
\* response with status 500 and body e and increases total_errors by exactly
\* one, and the request goes on to return (it does not abort); if no after
\* stage then replaces the response, the response sent has status 500 and
\* body e.
C3_HandlerErrorStep ==
    (rq.pc = "build" /\ rq'.pc # "build" /\ ReqResult.kind = "err") =>
        /\ rq'.pc = "after_async"
        /\ Unwrap(rq'.response).status = 500
        /\ Unwrap(rq'.response).body = ReqResult.err
        /\ total_errors' = total_errors + 1

C3_HandlerErrorSent ==
    (rq.pc = "done" /\ IsSome(rq.result) /\ ReqResult.kind = "err"
        /\ IsNone(rq.stop) /\ IsNone(rq.fail)) =>
        /\ ReqOut.status = 500
        /\ ReqOut.body = ReqResult.err
        /\ total_errors = rq.m0.total_errors + 1 + (IF rq.body_err THEN 1 ELSE 0)

C3_HandlerErrorIs500 == [][C3_HandlerErrorStep]_vars /\ []C3_HandlerErrorSent

\* C3 witness: the handler failed with "boom" and the 500 was sent
C3_Witness ==
    /\ rq.pc = "done"
    /\ IsSome(rq.result) /\ ReqResult.kind = "err"
    /\ ReqOut.status = 500 /\ ReqOut.body = Chars("boom")
    /\ total_errors = rq.m0.total_errors + 1

\* C4: the fast path is taken only with no middleware, guards or hook seen
\* and pre-serialized bytes b; it sends status 200, Content-Type
\* application/json and body b, which is the wire response, and the
\* bytes_sent increment, of Response::from_json_bytes(b, 200) followed by
\* build_hyper_response; and with nothing configured and bytes returned the
\* fast path is the one taken.
C4_FastPathEquivalence ==
    /\ rq.fast =>
         LET b == ReqResult.bytes
             slow == Response_from_json_bytes(b, 200)
         IN /\ ReqResult.kind = "bytes"
            /\ ~cfg.mw_sync /\ ~cfg.mw_async
            /\ ReqOut.status = 200
            /\ ReqOut.headers = (HeaderName("Content-Type") :> "application/json")
            /\ ReqOut.body = b
            /\ ReqOut = build_hyper_response(slow)
            /\ bytes_sent = rq.m0.bytes_sent + build_hyper_bytes_sent(slow)
            /\ bytes_sent = rq.m0.bytes_sent + Len(b)
    /\ (rq.pc = "done" /\ cfg = NoMiddleware /\ IsSome(rq.result)
            /\ ReqResult.kind = "bytes") => rq.fast

\* C4 witness: GET /ping answered through the fast path with {"ok":true}
C4_Witness ==
    /\ rq.pc = "done" /\ rq.fast
    /\ rq.method = "GET" /\ rq.path = "/ping"
    /\ ReqOut.body = Chars("{\"ok\":true}")

\* C5: for a matched GET, HEAD, OPTIONS or DELETE request the body stage
\* never runs: the Request built, and the one handed to the handler, has an
\* empty body and bytes_received is as before the request.
C5_BodylessNeverReadsBody ==
    (rq.pc # "idle" /\ IsSome(rq.route) /\ rq.method \in {"GET", "HEAD", "OPTIONS", "DELETE"}) =>
        /\ rq.pc # "body"
        /\ \A i \in 1..Len(rq.trace) : rq.trace[i] # "body"
        /\ bytes_received = rq.m0.bytes_received
        /\ IsSome(rq.request) => Unwrap(rq.request).body = <<>>
        /\ IsSome(rq.handed) => Unwrap(rq.handed).body = <<>>

\* C5 witness: a DELETE that carried a body reached the handler
C5_Witness ==
    /\ rq.pc = "done"
    /\ rq.method = "DELETE" /\ IsSome(rq.route)
    /\ rq.wire_body # <<>>
    /\ IsSome(rq.handed)

\* ========================================================================
\* Properties of the running server (checked under Spec)
\* ========================================================================
LiveConns == {c \in ConnIds : conn[c] \in {"serving", "in_request", "serve_done"}}
EndedConns == {c \in ConnIds : conn[c] \in {"ended", "panicked"}}

\* C6: active_connections equals the number of accepted connections whose
\* task has not yet ended (so it never wraps below zero, and is back at its
\* starting value once every accepted connection has terminated).
C6_ActiveConnectionsCountsLiveTasks ==
    active_connections = Cardinality(LiveConns)

\* C7: a connection task that has ended, however it ended, has decremented
\* the connection count exactly once.
C7_DecrementOnEveryEnd ==
    \A c \in EndedConns : decs[c] = 1

\* C8: active_connections never exceeds max_connections; the accept loop's
\* step on an accepted stream at the ceiling rejects it: no task is spawned,
\* active_connections and every connection are unchanged, and the loop is
\* back at its select.
C8_RejectStep ==
    (main_pc = "accept_limit" /\ main_pc' # "accept_limit"
        /\ active_connections >= max_connections) =>
        /\ main_pc' = "select"
        /\ rejected' = rejected + 1
        /\ spawned' = spawned
        /\ active_connections' = active_connections
        /\ conn' = conn

C8_CeilingEnforced ==
    [](active_connections <= max_connections) /\ [][C8_RejectStep]_vars

\* C8 witness: a stream was rejected at the ceiling and the loop is selecting
C8_Witness ==
    /\ rejected > 0
    /\ main_pc = "select"
    /\ active_connections = max_connections
    /\ Cardinality(LiveConns) = max_connections

\* C9: however many shutdown() calls are made and however they interleave,
\* shutdown_initiated goes from false to true exactly once and is never
\* un-set: a call that has stored, or returned, leaves is_shutting_down true.
C9_FlagState ==
    /\ sd_transitions <= 1
    /\ (sd_transitions = 1) = is_shutting_down
    /\ (calls_done > 0 \/ main_pc = "ctrlc_send"
          \/ \E k \in Callers : cpc[k] = "stored") => is_shutting_down

C9_ShutdownOnceAndStable ==
    []C9_FlagState /\ [][is_shutting_down => is_shutting_down']_vars

\* C9 witness: two callers are inside shutdown() at once after an earlier
\* call returned, and the flag has been set once
C9_Witness ==
    /\ cpc["api1"] = "stored" /\ cpc["api2"] = "stored"
    /\ calls_done > 0
    /\ sd_transitions = 1

\* The steps of a thread inside shutdown()
StoreStepBy(t) ==
    IF t = "ctrlc"
    THEN main_pc = "select" /\ main_pc' = "ctrlc_send"
    ELSE cpc[t] # "stored" /\ cpc'[t] = "stored"
SendStepBy(t) ==
    IF t = "ctrlc"
    THEN main_pc = "ctrlc_send" /\ main_pc' # "ctrlc_send"
    ELSE cpc[t] = "stored" /\ cpc'[t] # "stored"

\* C10 as stated: a shutdown() call made after an earlier call returned
\* queues no further broadcast notification.
C10_LaterCallsSendNothing ==
    late_notifications = 0

\* C10 as amended: a shutdown() call begun after an earlier call returned
\* leaves shutdown_initiated true and active_requests unchanged, and its
\* send queues one more notification whenever a receiver is subscribed.
C10_LaterCallStep ==
    \A t \in Threads :
        /\ (StoreStepBy(t) /\ calls_done > 0) =>
              /\ shutdown_initiated /\ shutdown_initiated'
              /\ active_requests' = active_requests
              /\ notify_tail' = notify_tail
        /\ (SendStepBy(t) /\ clate[t]) =>
              /\ shutdown_initiated /\ shutdown_initiated'
              /\ active_requests' = active_requests
              /\ notify_tail' = notify_tail + (IF rx_subscribed THEN 1 ELSE 0)

C10_LaterCallsKeepStateButNotify == [][C10_LaterCallStep]_vars

\* C10 witness: a later call has queued a notification for the subscriber
C10_Witness ==
    /\ late_notifications > 0
    /\ rx_subscribed
    /\ notify_tail >= 2

\* The accept loop has been left
LoopExited == main_pc \in {"loop_exited", "drain", "returned"}

\* C11: once shutdown() has been invoked, by whichever caller and whenever
\* relative to the subscription, an accept loop waiting in its select is
\* eventually woken and exits, even if no connection ever arrives.
C11_ShutdownExitsLoop ==
    (shutdown_initiated /\ main_pc = "select") ~> LoopExited

\* C12: the step that counts and spawns a connection task is never taken
\* once shutdown_initiated is true.
C12_NoSpawnAfterShutdown ==
    [][(main_pc = "accept_spawn" /\ spawned' = spawned + 1) => ~shutdown_initiated]_vars

\* C13: drain() returns only with active_requests = 0 or with the elapsed
\* time above drain_timeout; run returns only from after the accept loop,
\* either on having read active_requests = 0 or out of drain(); and leaving
\* the loop, draining and returning change no connection and no request
\* count (requests in flight are not cancelled).
C13_ReturnStep ==
    /\ (main_pc = "drain" /\ main_pc' = "returned") =>
          (active_requests = 0 \/ drain_elapsed > drain_timeout)
    /\ (main_pc # "returned" /\ main_pc' = "returned") =>
          /\ main_pc \in {"loop_exited", "drain"}
          /\ main_pc = "loop_exited" => active_requests = 0
    /\ (LoopExited /\ main_pc' # main_pc) =>
          /\ conn' = conn
          /\ active_requests' = active_requests

C13_DrainBeforeReturn == [][C13_ReturnStep]_vars

\* C13 witness: run returned out of drain() on the timeout while a request
\* was still being handled
C13_Witness ==
    /\ main_pc = "returned"
    /\ active_requests > 0
    /\ drain_elapsed > drain_timeout
    /\ \E c \in ConnIds : conn[c] = "in_request"

\* C14: drain() always terminates: a run that entered drain() returns from
\* it, whatever drain_timeout is and even if a request never finishes.
C14_DrainTerminates ==
    (main_pc = "drain") ~> (main_pc = "returned")

\* C14 witness: with a zero drain_timeout and a request that has not
\* finished, drain() has returned after one poll period
C14_Witness ==
    /\ main_pc = "returned"
    /\ drain_timeout = 0
    /\ drain_elapsed = 1
    /\ active_requests = 1

\* C15: request_started and request_finished are paired: as long as no task
\* has panicked, active_requests is the number of requests being handled,
\* so it is 0 when none is in flight, however the earlier requests ended.
C15_RequestsPaired ==
    (\A c \in ConnIds : conn[c] # "panicked") =>
        active_requests = Cardinality({c \in ConnIds : conn[c] = "in_request"})

\* ========================================================================
\* Properties of the wire response (checked under SpecReq)
\* ========================================================================
\* C16: on every exit path of handle_request bytes_sent has increased, once,
\* by the length of the body the returned wire response carries.
C16_BytesSentIsWireBody ==
    rq.pc = "done" => bytes_sent = rq.m0.bytes_sent + Len(ReqOut.body)

\* The builder refused the response handed to build_hyper_response
BuildFailed ==
    /\ rq.pc = "done"
    /\ IsSome(rq.built)
    /\ \E k \in DOMAIN Unwrap(rq.built).headers : ~ValidHeaderName(k)

\* C17: when building the wire response fails, the wire response returned
\* has status 500 and the fixed body "Internal Server Error".
C17_FallbackIs500 ==
    BuildFailed =>
        /\ ReqOut.status = 500
        /\ ReqOut.body = Chars("Internal Server Error")

\* ========================================================================
\* Properties of query parsing (checked under SpecQuery)
\* ========================================================================
\* The non-empty '&'-separated pairs of the query string parsed
QueryPairs == SelectSeq(Split(qparse.input, "&"), LAMBDA p : p # <<>>)

\* The entry a pair stands for: split at the first '=', '+' in the value
\* read as a space, both sides percent-decoded with a failure giving ""
EqualsAt(p) == {i \in 1..Len(p) : p[i] = "=" /\ \A j \in 1..(i - 1) : p[j] # "="}
PairKey(p) ==
    IF EqualsAt(p) = {} THEN DecodeOrDefault(p)
    ELSE DecodeOrDefault(SubSeq(p, 1, (CHOOSE i \in EqualsAt(p) : TRUE) - 1))
PairValue(p) ==
    IF EqualsAt(p) = {} THEN <<>>
    ELSE LET raw == SubSeq(p, (CHOOSE i \in EqualsAt(p) : TRUE) + 1, Len(p))
         IN DecodeOrDefault([i \in 1..Len(raw) |-> IF raw[i] = "+" THEN " " ELSE raw[i]])

\* C18 as stated: every non-empty pair of a non-empty query string yields
\* its entry, decoded key -> decoded value, in the parsed map.
C18_EveryPairYieldsItsEntry ==
    (qparse.pc = "done" /\ qparse.input # <<>>) =>
        \A i \in 1..Len(QueryPairs) :
            /\ PairKey(QueryPairs[i]) \in DOMAIN qparse.out
            /\ qparse.out[PairKey(QueryPairs[i])] = PairValue(QueryPairs[i])

\* C18 as amended: the parsed map of a non-empty query string has exactly
\* the decoded keys of its non-empty pairs, and each pair (the last one,
\* where a key repeats) maps its key to its decoded value: '+' in the value
\* is a space, a pair without '=' has the value "", a key or value that
\* fails to decode is ""; a=1&b=two+words gives {a: "1", b: "two words"}.
C18_QueryParsing ==
    (qparse.pc = "done" /\ qparse.input # <<>>) =>
        LET m == qparse.out
        IN /\ DOMAIN m = {PairKey(QueryPairs[i]) : i \in 1..Len(QueryPairs)}
           /\ \A i \in 1..Len(QueryPairs) :
                 (\A j \in (i + 1)..Len(QueryPairs) :
                      PairKey(QueryPairs[j]) # PairKey(QueryPairs[i]))
                   => m[PairKey(QueryPairs[i])] = PairValue(QueryPairs[i])
           /\ qparse.input = Chars("a=1&b=two+words") =>
                 m = (<<"a">> :> <<"1">>) @@ (<<"b">> :> Chars("two words"))
           /\ qparse.input = <<"a">> => m = (<<"a">> :> <<>>)
           /\ qparse.input = <<"a", "=", "%", "F", "F">> => m = (<<"a">> :> <<>>)
           /\ qparse.input = <<"a", "=", "+">> => m = (<<"a">> :> <<" ">>)

\* C18 witness: a=1&b=two+words has been parsed, and b holds "two words"
C18_Witness ==
    /\ qparse.pc = "done"
    /\ qparse.input = Chars("a=1&b=two+words")
    /\ DOMAIN qparse.out = {<<"a">>, <<"b">>}
    /\ qparse.out[<<"b">>] = Chars("two words")

\* ========================================================================
\* Properties of ServerMetrics under concurrent callers (SpecMetrics)
\* ========================================================================
\* C19: after any interleaving of inc_requests, inc_connections and
\* dec_connections calls no update is lost: total_requests is the number of
\* inc_requests calls, active_connections is the number of inc_connections
\* calls minus the number of dec_connections calls (in the counter's
\* wrapping arithmetic, so exactly that number whenever it is not negative),
\* and a snapshot() taken after the calls reports exactly those values.
C19_NoLostUpdate ==
    /\ total_requests = mt.inc_requests
    /\ active_connections = (mt.inc_connections - mt.dec_connections) % CounterMod
    /\ mt.inc_connections >= mt.dec_connections =>
          active_connections = mt.inc_connections - mt.dec_connections
    /\ (mt.snap_pc = "done" /\ mt.snap_clean) =>
          /\ mt.snap.total_requests = mt.inc_requests
          /\ mt.snap.active_connections =
                (mt.inc_connections - mt.dec_connections) % CounterMod

\* C19 witness: two inc_requests, an inc_connections and a dec_connections
\* were made, and the snapshot taken afterwards reports 2 and 0
C19_Witness ==
    /\ mt.inc_requests = 2 /\ mt.inc_connections = 1 /\ mt.dec_connections = 1
    /\ mt.snap_pc = "done" /\ mt.snap_clean
    /\ mt.snap = [total_requests |-> 2, active_connections |-> 0]

\* ========================================================================
\* Properties of InMemoryEventStore (checked under SpecStore)
\* ========================================================================
\* The thread t made an append_events call in this step
AppendCallBy(t) == esc'.calls[t] = esc.calls[t] + 1

\* The version of the aggregate's last stored event, 0 when it has none
StoredVersion(aggregate_id) ==
    IF aggregate_id \in DOMAIN es.events
    THEN last_version(es.events[aggregate_id])
    ELSE 0

\* C20: append_events returns ConcurrencyConflict{expected, actual} whenever
\* expected_version differs from the version of the aggregate's last stored
\* event (0 when it has none), and on that and any other error return the
\* store is left unchanged: no event appended, no aggregate entry created,
\* no snapshot written.
C20_ErrorLeavesStoreUnchanged ==
    [][\A t \in Writers :
         AppendCallBy(t) =>
           LET a == esc'.arg[t]
               r == esc'.result[t]
           IN /\ (a.expected_version # StoredVersion(a.aggregate_id)) =>
                    r = ConcurrencyConflict(a.expected_version,
                                            StoredVersion(a.aggregate_id))
              /\ IsErr(r) =>
                    /\ es'.events = es.events
                    /\ es'.snapshots = es.snapshots]_vars

\* C21: the events stored for an aggregate have strictly increasing versions
\* in log order, so the last event holds the aggregate's highest version.
C21_VersionsIncrease ==
    \A g \in DOMAIN es.events :
        \A i, j \in 1..Len(es.events[g]) :
            i < j => es.events[g][i].version < es.events[g][j].version

\* ========================================================================
\* Properties of SagaOrchestrator (checked under SpecSaga)
\* ========================================================================
ExecutionIdsTried ==
    {ExecutionId(saga_name, counter) :
        saga_name \in SagaNamesTried, counter \in 0..(MaxExecutions - 1)}

StepStatuses(execution) ==
    [i \in 1..Len(execution.steps) |-> execution.steps[i].status]

\* C22: fail_step(execution, step) on a running execution marks that step
\* Failed, turns every other step that was Completed into Compensated, leaves
\* the steps not yet started Pending, and ends with the execution status
\* Compensated (not Compensating) and completed_at set.
C22_FailStepCompensates ==
    [][\A execution_id \in ExecutionIdsTried, step_name \in StepNamesTried :
         (/\ FailStep(execution_id, step_name, "boom")
          /\ execution_id \in DOMAIN sg.executions
          /\ sg.executions[execution_id].status = "Running"
          /\ FindStep(sg.executions[execution_id].steps, step_name) # 0) =>
            LET before == sg.executions[execution_id]
                after == sg'.executions[execution_id]
                i == FindStep(before.steps, step_name)
            IN /\ sgc'.result = "Ok"
               /\ Len(after.steps) = Len(before.steps)
               /\ after.steps[i].status = "Failed"
               /\ \A j \in 1..Len(before.steps) :
                     j # i =>
                       /\ before.steps[j].status = "Completed" =>
                             after.steps[j].status = "Compensated"
                       /\ before.steps[j].status = "Pending" =>
                             after.steps[j].status = "Pending"
               /\ after.status = "Compensated"
               /\ IsSome(after.completed_at)]_vars

\* C22 witness: a running execution with its first step completed had its
\* second step failed: the steps are Compensated, Failed, Pending
C22_Witness ==
    \E execution_id \in DOMAIN sg.executions :
        /\ StepStatuses(sg.executions[execution_id]) = <<"Compensated", "Failed", "Pending">>
        /\ sg.executions[execution_id].status = "Compensated"
        /\ sg.compensated = 1

\* C23: a started execution is Running; complete_step sets the execution
\* status to Completed, with completed_at, exactly when every step of the
\* execution is Completed after it and otherwise leaves the status as it was;
\* start_execution of an unregistered saga returns SagaNotFound and creates
\* no execution.
C23_CompletedWhenAllStepsDone ==
    [][/\ \A execution_id \in ExecutionIdsTried, step_name \in StepNamesTried :
            (/\ CompleteStep(execution_id, step_name, Some(JNum(1)))
             /\ execution_id \in DOMAIN sg.executions) =>
               LET before == sg.executions[execution_id]
                   after == sg'.executions[execution_id]
               IN IF /\ sgc'.result = "Ok"
                     /\ \A j \in 1..Len(after.steps) : after.steps[j].status = "Completed"
                  THEN after.status = "Completed" /\ IsSome(after.completed_at)
                  ELSE /\ after.status = before.status
                       /\ after.completed_at = before.completed_at
       /\ \A saga_name \in SagaNamesTried :
            StartExecution(saga_name) =>
               IF saga_name \in DOMAIN sg.sagas
               THEN /\ sgc'.result = "Ok"
                    /\ sg'.executions[ExecutionId(saga_name, sg.execution_counter)].status
                          = "Running"
               ELSE /\ sgc'.result = "SagaNotFound"
                    /\ sg'.executions = sg.executions
                    /\ sg'.execution_counter = sg.execution_counter]_vars

\* C23 witness: the three steps of an execution were completed one by one
\* and the execution is Completed
C23_Witness ==
    \E execution_id \in DOMAIN sg.executions :
        /\ StepStatuses(sg.executions[execution_id]) = <<"Completed", "Completed", "Completed">>
        /\ sg.executions[execution_id].status = "Completed"
        /\ IsSome(sg.executions[execution_id].completed_at)
        /\ sgc.step_calls = 3

\* ========================================================================
\* Properties of MockConsumer (checked under SpecConsumer)
\* ========================================================================
\* The enqueue numbers of the messages of a queue
Nths(queue) == {queue[i].nth : i \in 1..Len(queue)}

\* C24: poll returns exactly the pending messages whose topic is subscribed,
\* in enqueue order, removes them from the pending queue and leaves every
\* message of an unsubscribed topic pending; so each enqueued message is
\* returned by at most one poll.
C24_PollReturnsSubscribedOnce ==
    [][Poll =>
         LET before == mc.pending
             polled == mc'.polled
             after == mc'.pending
         IN /\ \A i \in 1..Len(polled) :
                  /\ contains(mc.subscriptions, polled[i].topic)
                  /\ \E k \in 1..Len(before) : before[k] = polled[i]
            /\ \A i \in 1..Len(after) :
                  /\ ~contains(mc.subscriptions, after[i].topic)
                  /\ \E k \in 1..Len(before) : before[k] = after[i]
            /\ Nths(polled) \cup Nths(after) = Nths(before)
            /\ Nths(polled) \cap Nths(after) = {}
            /\ Len(polled) + Len(after) = Len(before)
            /\ \A i, j \in 1..Len(polled) : i < j => polled[i].nth < polled[j].nth
            /\ \A i, j \in 1..Len(after) : i < j => after[i].nth < after[j].nth
            /\ \A n \in DOMAIN mc'.returned : mc'.returned[n] <= 1]_vars

\* C24 witness: three messages were enqueued, a poll returned two of them
\* in enqueue order and the third, of an unsubscribed topic, is still pending
C24_Witness ==
    /\ mc.enqueued = 3
    /\ Len(mc.polled) = 2
    /\ mc.polled[1].nth < mc.polled[2].nth
    /\ Len(mc.pending) = 1
    /\ mc.pending[1].topic = "t3"
    /\ mc.messages_received = 2

\* ========================================================================
\* Properties of GrpcServer::handle_request (checked under SpecGrpc)
\* ========================================================================
\* The status code the call of t has to return, from its request and the
\* services registered
GrpcExpectedCode(t) ==
    LET request == grc.request[t]
    IN IF request.payload_len > gr.config.max_message_size THEN 3
       ELSE IF request.service \notin DOMAIN gr.services THEN 5
       ELSE IF \A i \in 1..Len(gr.services[request.service].methods) :
                  gr.services[request.service].methods[i] # request.method THEN 12
       ELSE 0

StageRank(stage) ==
    CASE stage = "query" -> 1
      [] stage = "headers" -> 2
      [] stage = "body" -> 3
      [] stage = "mw_before" -> 4
      [] stage = "mw_before_async" -> 5
      [] stage = "prom_before" -> 6
      [] stage = "guards" -> 7
      [] stage = "handler" -> 8
      [] stage = "after_async" -> 9
      [] stage = "after_sync" -> 10
      [] stage = "prom_after" -> 11
      [] OTHER -> 0

BeforeStages == {"mw_before", "mw_before_async", "prom_before", "guards"}
AfterStages == {"after_async", "after_sync", "prom_after"}
StagesRun == {rq.trace[i] : i \in 1..Len(rq.trace)}
LastStage == rq.trace[Len(rq.trace)]

\* C26: the before stages run in the order synchronous middleware,
\* asynchronous middleware, metrics hook, guards, each before the handler; a
\* stage runs only when every stage before it continued; when a before stage
\* stops, its response is the one handed to the response builder at once and
\* no later before stage, no handler and no after stage runs.
C26_BeforeStagesInOrderStopEndsPipeline ==
    /\ \A i, j \in 1..Len(rq.trace) :
         i < j => StageRank(rq.trace[i]) < StageRank(rq.trace[j])
    /\ \A i \in 1..Len(rq.trace) : StageRank(rq.trace[i]) > 0
    /\ (IsSome(rq.stop) \/ IsSome(rq.fail)) =>
         /\ rq.pc = "done"
         /\ LastStage = (IF IsSome(rq.stop) THEN Unwrap(rq.stop).stage
                                            ELSE Unwrap(rq.fail).stage)
    /\ (IsSome(rq.stop) /\ Unwrap(rq.stop).stage \in BeforeStages) =>
         /\ rq.built = Some(Unwrap(rq.stop).response)
         /\ handler_calls = rq.m0.handler_calls
         /\ IsNone(rq.result)
         /\ StagesRun \cap ({"handler"} \cup AfterStages) = {}

\* The hook stops the request after both middleware stages continued
C26_Witness ==
    /\ rq.pc = "done"
    /\ IsSome(rq.stop)
    /\ Unwrap(rq.stop).stage = "prom_before"
    /\ {"mw_before", "mw_before_async"} \subseteq StagesRun
    /\ rq.built = Some(StopResponse)


\* A before stage's failure or stop is recorded by this step
BeforeFailsNow ==
    IsNone(rq.fail) /\ IsSome(rq'.fail) /\ Unwrap(rq'.fail).stage \in BeforeStages
BeforeStopsNow ==
    IsNone(rq.stop) /\ IsSome(rq'.stop) /\ Unwrap(rq'.stop).stage \in BeforeStages

C27_FailStep ==
    BeforeFailsNow =>
        LET e == Unwrap(rq'.fail)
        IN /\ rq'.pc = "done"
           /\ rq'.built = Some(Response_error(e.status, e.message))
           /\ total_errors' = total_errors + 1
           /\ handler_calls' = handler_calls

C27_StopStep == BeforeStopsNow => total_errors' = total_errors

C27_FailSent ==
    (IsSome(rq.fail) /\ Unwrap(rq.fail).stage \in BeforeStages) =>
        LET e == Unwrap(rq.fail)
        IN /\ ReqOut.status = WireStatus(e.status)
           /\ ReqOut.body = e.message
           /\ handler_calls = rq.m0.handler_calls
           /\ IsNone(rq.result)
           /\ total_errors = rq.m0.total_errors + 1 + (IF rq.body_err THEN 1 ELSE 0)

C27_StopSent ==
    (IsSome(rq.stop) /\ Unwrap(rq.stop).stage \in BeforeStages) =>
        total_errors = rq.m0.total_errors + (IF rq.body_err THEN 1 ELSE 0)

\* C27: when a before stage (synchronous middleware, asynchronous middleware,
\* hook, guards) fails with a status and a message, the request ends with the
\* error response of that status and message, total_errors grows by exactly
\* one and the handler is not invoked; a Stop from a before stage leaves
\* total_errors as it was.
C27_BeforeFailureIsErrorResponse ==
    /\ [][C27_FailStep /\ C27_StopStep]_vars
    /\ [](C27_FailSent /\ C27_StopSent)

\* The asynchronous middleware failed with 401 "denied" after the synchronous
\* middleware continued
C27_Witness ==
    /\ rq.pc = "done"
    /\ IsSome(rq.fail) /\ Unwrap(rq.fail).stage = "mw_before_async"
    /\ "mw_before" \in StagesRun
    /\ ReqOut.status = 401 /\ ReqOut.body = Chars("denied")
    /\ total_errors = rq.m0.total_errors + 1


MwAfterStages == {"after_async", "after_sync"}

C28_AfterFailStep ==
    (IsNone(rq.fail) /\ IsSome(rq'.fail) /\ Unwrap(rq'.fail).stage \in MwAfterStages) =>
        LET e == Unwrap(rq'.fail)
        IN /\ rq'.pc = "done"
           /\ rq'.built = Some(Response_error(e.status, e.message))
           /\ total_errors' = total_errors + 1

C28_AfterOrder ==
    \A i \in 1..Len(rq.trace) :
        rq.trace[i] \in AfterStages =>
            /\ ~rq.fast
            /\ IsSome(rq.result)
            /\ \E h \in 1..(i - 1) : rq.trace[h] = "handler"
            /\ \A j \in 1..(i - 1) :
                 /\ rq.trace[i] = "after_async" => rq.trace[j] \notin AfterStages
                 /\ rq.trace[i] = "after_sync" => rq.trace[j] \notin {"after_sync", "prom_after"}

C28_AfterStopSent ==
    (IsSome(rq.stop) /\ Unwrap(rq.stop).stage \in MwAfterStages) =>
        LET r == Unwrap(rq.stop).response
        IN /\ rq.pc = "done"
           /\ rq.built = Some(r)
           /\ ReqOut = build_hyper_response(r)
           /\ LastStage = Unwrap(rq.stop).stage

C28_AfterFailSent ==
    (IsSome(rq.fail) /\ Unwrap(rq.fail).stage \in MwAfterStages) =>
        LET e == Unwrap(rq.fail)
        IN /\ rq.pc = "done"
           /\ ReqOut.status = WireStatus(e.status)
           /\ ReqOut.body = e.message
           /\ LastStage = e.stage

\* C28: outside the fast path, once the handler has returned, the
\* asynchronous after-middleware runs before the synchronous one; a Stop
\* from either makes its response the one sent, whatever the response was
\* before; a failure makes the error response of its status and message the
\* one sent and adds one to total_errors; in both cases no later after stage
\* runs.
C28_AfterStagesOrderStopAndFailure ==
    /\ [][C28_AfterFailStep]_vars
    /\ [](C28_AfterOrder /\ C28_AfterStopSent /\ C28_AfterFailSent)

\* The asynchronous after-middleware changed the response and continued, then
\* the synchronous one stopped: the response sent is the Stop's alone
C28_Witness ==
    /\ rq.pc = "done"
    /\ IsSome(rq.stop) /\ Unwrap(rq.stop).stage = "after_sync"
    /\ "after_async" \in StagesRun
    /\ IsSome(rq.response) /\ "x-after" \in DOMAIN Unwrap(rq.response).headers
    /\ "x-after" \notin DOMAIN ReqOut.headers
    /\ ReqOut.status = 403


C29_HookAfterFailStep ==
    (rq.pc = "prom_after" /\ rq'.hook_after = "fail") =>
        /\ rq'.pc = "done"
        /\ rq'.built = rq.response
        /\ rq'.out = Some(build_hyper_response(Unwrap(rq.response)))
        /\ IsNone(rq'.fail)
        /\ total_errors' = total_errors

C29_HookAfterFailSent ==
    rq.hook_after = "fail" =>
        /\ rq.pc = "done"
        /\ LastStage = "prom_after"
        /\ \A o \in MwOutcomes :
             o.kind = "fail" => rq.built # Some(Response_error(o.status, o.message))
        /\ ReqOut.status = WireStatus(ResponseOf(ReqResult).status)
        /\ total_errors = rq.m0.total_errors + (IF rq.body_err THEN 1 ELSE 0)
                            + (IF ReqResult.kind = "err" THEN 1 ELSE 0)

\* C29: when the hook's after stage fails, the failure is dropped: the
\* response built so far is the one sent, total_errors is not increased and
\* the request does not end in the failure's error response.
C29_HookAfterFailureSwallowed ==
    /\ [][C29_HookAfterFailStep]_vars
    /\ []C29_HookAfterFailSent

\* The handler answered 200, the hook's after stage failed, and the 200 was
\* sent with no error counted
C29_Witness ==
    /\ rq.pc = "done"
    /\ rq.hook_after = "fail"
    /\ ReqOut.status = 200
    /\ total_errors = rq.m0.total_errors


\* Where the request task is suspended: req.collect().await,
\* execute_before_async(..).await, invoke_async(..).await and
\* execute_after_async(..).await
AwaitPcs == {"body", "mw_before_async", "handler", "after_async"}
SlotReadPcs == {"prom_before", "fast_check", "prom_after"}

\* C30: the read guard on the hook slot is never held over a suspension
\* point: wherever handle_request awaits (body collection, asynchronous
\* middleware, the handler) the task holds no guard on the slot, so a writer
\* that sets or clears the hook is not kept waiting by an awaited operation.
C30_NoSlotGuardAcrossAwait ==
    /\ cfg.readers \in {0, 1}
    /\ cfg.readers > 0 => rq.pc \in SlotReadPcs
    /\ rq.pc \in AwaitPcs =>
         /\ cfg.readers = 0
         /\ cfg.changes < MaxCfgChanges => ENABLED SetPrometheus

\* The handler is being awaited after the hook's before stage ran under the
\* guard, and a writer has cleared the slot since
C30_Witness ==
    /\ rq.pc = "handler"
    /\ "prom_before" \in StagesRun
    /\ cfg.readers = 0
    /\ ~cfg.prometheus /\ cfg.changes = 1


\* The request ran to its last statement: no stage stopped it or failed
RanToEnd == rq.pc = "done" /\ IsSome(rq.result) /\ IsNone(rq.stop) /\ IsNone(rq.fail)

\* C31: a request sees the hook slot and the guard flag as if each were read
\* once: the hook's after stage runs exactly for the requests whose before
\* stage it ran, and the fast path is taken exactly when the before stages
\* saw no middleware, no hook and no guards and the handler returned bytes,
\* whatever other threads do to the slot or the guards meanwhile.
C31_HookAndGuardsSeenOnce ==
    RanToEnd =>
        /\ ~rq.fast => ("prom_after" \in StagesRun <=> "prom_before" \in StagesRun)
        /\ rq.fast <=> /\ StagesRun \cap BeforeStages = {}
                       /\ ReqResult.kind = "bytes"


\* C32: every after stage that runs (asynchronous middleware, synchronous
\* middleware, hook) is given the body-less clone of the request that was
\* handed to the handler: same method, path, params, query and headers and
\* an empty body, also with only the hook or guards configured.
C32_AfterStagesGetHandlerRequest ==
    (StagesRun \cap AfterStages # {}) =>
        /\ IsSome(rq.handed)
        /\ rq.request = Some(clone_without_body(Unwrap(rq.handed)))


\* ------------------------------------------------------------------------
\* Properties of the generic response construction (SpecBuilder)
\* ------------------------------------------------------------------------
BuiltResponse == Unwrap(rb.response)
Marked(value) ==
    /\ value.t = "obj"
    /\ "__cello_response__" \in DOMAIN value.o
    /\ value.o["__cello_response__"] = JBool(TRUE)
StringValued(obj) == {k \in DOMAIN obj : obj[k].t = "str"}

\* What the construction is to give for an object carrying the marker; the
\* status is the one the object states, taken modulo `wrap`
MarkedResponseIs(obj, wrap) ==
    LET headers == IF "headers" \in DOMAIN obj /\ obj["headers"].t = "obj"
                   THEN obj["headers"].o ELSE EmptyMap
    IN /\ BuiltResponse.status =
            (IF "status" \in DOMAIN obj /\ obj["status"].t = "num" /\ obj["status"].n >= 0
             THEN obj["status"].n % wrap ELSE 200)
       /\ BuiltResponse.body =
            (IF "body" \in DOMAIN obj /\ obj["body"].t = "str" THEN obj["body"].s ELSE <<>>)
       /\ DOMAIN BuiltResponse.headers = StringValued(headers)
       /\ \A k \in StringValued(headers) : BuiltResponse.headers[k] = Text(headers[k].s)

GenericResponseIs(wrap) ==
    rb.pc = "done" =>
        CASE rb.result.kind = "bytes" ->
               BuiltResponse = Response_from_json_bytes(rb.result.bytes, 200)
          [] rb.result.kind = "value" /\ Marked(rb.result.value) ->
               MarkedResponseIs(rb.result.value.o, wrap)
          [] OTHER ->
               BuiltResponse = Response_from_json_value(rb.result.value, 200)

\* C33: a handler result that is an object whose field __cello_response__ is
\* the boolean true becomes the response with the object's status (200 when
\* it has none), its string-valued headers and its body string (empty when
\* it has none); every other value, and pre-serialized bytes, becomes the
\* status-200 JSON response of that value.
C33_GenericResponseConstruction == GenericResponseIs(1000000)


\* ------------------------------------------------------------------------
\* Properties of record_latency (SpecLatency)
\* ------------------------------------------------------------------------
C34_PushStep ==
    \A t \in LatencyCallers :
        LatencyPush(t) =>
            /\ latencies'[Len(latencies')] = lt.next
            /\ IF Len(latencies) < LatencyCapacity
               THEN latencies' = Append(latencies, lt.next)
               ELSE /\ Len(latencies') = LatencyCapacity
                    /\ \A i \in 1..(LatencyCapacity - 1) : latencies'[i] = latencies[i + 1]

C34_Bounded ==
    /\ Len(latencies) <= LatencyCapacity
    /\ \A i \in 1..(Len(latencies) - 1) : latencies[i + 1] = latencies[i] + 1
    /\ Len(latencies) > 0 => latencies[Len(latencies)] = lt.next - 1

\* C34: after every record_latency call, under any interleaving of callers,
\* the latency buffer holds at most 1000 entries; a sample added to a full
\* buffer evicts the oldest entry, so the buffer holds the most recent
\* samples in the order they arrived.
C34_LatencyBufferBounded == [][C34_PushStep]_vars /\ []C34_Bounded

\* Samples were pushed into the full buffer: the first one stored is gone
C34_Witness ==
    /\ lt.evicted
    /\ Len(latencies) = LatencyCapacity
    /\ latencies[1] > 1
    /\ \A t \in LatencyCallers : lt.pc[t] = "idle"


C35_LoadStep ==
    \A t \in LatencyCallers :
        LatencyLoad(t) =>
            /\ lt'.pc[t] = "push" <=> total_requests % 64 = 0
            /\ lt'.pc[t] = "idle" <=> total_requests % 64 # 0

C35_PushStores ==
    \A t \in LatencyCallers :
        LatencyPush(t) => lt'.stored = lt.stored + 1 /\ latencies'[Len(latencies')] = lt.next

AllHandledInTurn == ~lt.overlap /\ \A t \in LatencyCallers : lt.pc[t] = "idle"

\* C35: record_latency stores the latency exactly when total_requests is a
\* multiple of 64 at the time of the call; of N requests handled one after
\* another exactly floor(N / 64) latencies are stored.
C35_OneInSixtyFour ==
    /\ [][C35_LoadStep /\ C35_PushStores]_vars
    /\ [](AllHandledInTurn => lt.stored = total_requests \div 64)

\* 128 requests were handled one after another and two latencies are stored
C35_Witness ==
    /\ AllHandledInTurn
    /\ total_requests = 128
    /\ lt.stored = 2
    /\ latencies = <<1, 2>>


\* ------------------------------------------------------------------------
\* Properties of concurrent append_events calls (SpecStore)
\* ------------------------------------------------------------------------
HasVersionAbove(events, version) == \E i \in 1..Len(events) : events[i].version > version

\* Both writers made their one call, on the same aggregate of a new store
\* with the same expected_version, each with an event above it, and returned
RacedAppends ==
    /\ \A t \in Writers : esc.calls[t] = 1 /\ esc.pc[t] = "idle"
    /\ esc.arg["w1"].aggregate_id = esc.arg["w2"].aggregate_id
    /\ esc.arg["w1"].expected_version = esc.arg["w2"].expected_version
    /\ \A t \in Writers : HasVersionAbove(esc.arg[t].events, esc.arg[t].expected_version)

\* C36: of two concurrent append_events calls for the same aggregate with
\* the same expected_version, each carrying an event of a higher version,
\* exactly one succeeds, the other returns ConcurrencyConflict, and the log
\* holds the winner's events only.
C36_OneWinner ==
    (RacedAppends /\ esc.arg["w1"].expected_version = 0) =>
        \E winner \in Writers :
            /\ esc.result[winner] = OkResult
            /\ \A t \in Writers \ {winner} : esc.result[t].kind = "ConcurrencyConflict"
            /\ es.events[esc.arg[winner].aggregate_id] = esc.arg[winner].events


SnapshotVersion(store, aggregate_id) ==
    IF aggregate_id \in DOMAIN store.snapshots
    THEN store.snapshots[aggregate_id].version
    ELSE 0

\* The stored versions of every aggregate rise strictly in log order
LogsRise(store) ==
    \A g \in DOMAIN store.events :
        \A i \in 1..(Len(store.events[g]) - 1) :
            store.events[g][i].version < store.events[g][i + 1].version

C37_SnapshotStep ==
    \A g \in AggregateIds : SnapshotVersion(es', g) >= SnapshotVersion(es, g)

C37_SnapshotWithinLog ==
    \A g \in DOMAIN es.snapshots : es.snapshots[g].version <= StoredVersion(g)

\* C37: with auto-snapshots on, under any interleaving of successful
\* append_events calls on an aggregate, the version of its stored snapshot
\* never decreases and never exceeds the version of its last stored event.
C37_SnapshotNeverOlder == [][C37_SnapshotStep]_vars /\ []C37_SnapshotWithinLog

\* The same for the runs in which every log rises strictly
C37_SnapshotNeverOlderRisingLogs ==
    [][(LogsRise(es) /\ LogsRise(es')) => C37_SnapshotStep]_vars


\* ------------------------------------------------------------------------
\* Finality of saga outcomes (SpecSaga)
\* ------------------------------------------------------------------------
FinalStatuses == {"Completed", "Compensated"}

C38_StatusFinal ==
    \A id \in DOMAIN sg.executions :
        sg.executions[id].status \in FinalStatuses =>
            sg'.executions[id].status = sg.executions[id].status

C38_CountedOnce == sg.completed + sg.compensated <= sg.total_executions

\* C38: after any sequence of start_execution, complete_step and fail_step
\* calls, an execution that reached Completed or Compensated never changes
\* status again, and completed + compensated <= total_executions.
C38_OutcomesFinalCountedOnce == [][C38_StatusFinal]_vars /\ []C38_CountedOnce


\* ------------------------------------------------------------------------
\* Properties of MockProducer (SpecProducer)
\* ------------------------------------------------------------------------
\* C39: under any interleaving of concurrent send and send_batch calls no two
\* stored messages share an id, and once the calls have returned
\* messages_sent equals the number of stored messages.
C39_DistinctIds ==
    /\ \A i, j \in 1..Len(mp.messages) :
         i # j => mp.messages[i].id # mp.messages[j].id
    /\ (\A t \in Producers : mp.pc[t] = "idle") => mp.messages_sent = Len(mp.messages)

\* The second half of C39: the counter once every call has returned
C39_SentCountsStored ==
    (\A t \in Producers : mp.pc[t] = "idle") => mp.messages_sent = Len(mp.messages)


\* ------------------------------------------------------------------------
\* Properties of MockRedisClient (SpecRedis)
\* ------------------------------------------------------------------------
ReadOps == {"get", "exists", "mget", "hget", "hgetall", "lrange", "smembers"}

\* What a read reply holds for the i-th key asked for: nothing, or a value
ServedNothing(reply, i) ==
    CASE reply.op = "get" -> IsNone(reply.value)
      [] reply.op = "exists" -> reply.value = Some(FALSE)
      [] reply.op = "mget" -> IsNone(reply.value[i])
      [] reply.op = "hget" -> IsNone(reply.value)
      [] OTHER -> reply.value = <<>>

\* No read operation returns the value of a key whose TTL had elapsed (the
\* TTL it was set or expired with, not one left over from before a set
\* without TTL)
NoExpiredValueServed ==
    rd.reply.op \in ReadOps =>
        \A i \in 1..Len(rd.reply.keys) :
            (rd.reply.keys[i] \in rd.due /\ ~rd.plain[rd.reply.keys[i]])
                => ServedNothing(rd.reply, i)

\* A key last set without a TTL, and neither deleted nor given a TTL since,
\* is readable: get, exists and mget find it
PlainKeysReadable ==
    rd.reply.op \in {"get", "exists", "mget"} =>
        \A i \in 1..Len(rd.reply.keys) :
            rd.plain[rd.reply.keys[i]] => ~ServedNothing(rd.reply, i)

\* C40: once a key's TTL has elapsed no read operation returns its value, and
\* a key set without a TTL stays readable until it is deleted or given a TTL,
\* whatever TTL an earlier set or expire gave it.
C40_NoExpiredReadNoSpuriousExpiry ==
    /\ NoExpiredValueServed
    /\ PlainKeysReadable

\* The reads that clean up first (get, exists) never serve an expired value
C40_CleaningReadsServeNoExpired ==
    (rd.reply.op \in {"get", "exists"} /\ rd.reply.keys[1] \in rd.due)
        => ServedNothing(rd.reply, 1)

====
